---- MODULE Spec2Model ----
(***************************************************************************)
(* Model of the incremental compilation orchestrator of typstudio:         *)
(*   - the source overlay        (src-tauri/src/project/world.rs)          *)
(*   - the cancellation guard    (src-tauri/src/compiler/cancellation.rs)  *)
(*   - the compile orchestrator  (src-tauri/src/compiler/service.rs,       *)
(*                                src-tauri/src/ipc/commands/typst.rs)     *)
(*   - the page render cache     (src-tauri/src/compiler/incr_renderer.rs) *)
(*   - the event payloads and the on-demand page render                    *)
(*                               (service.rs, ipc/commands/typst.rs)       *)
(* Each component has its own specification over the shared variables:     *)
(* SpecWorld, SpecRace, SpecGuard, SpecPackage, SpecService, SpecReader,   *)
(* SpecPoison, SpecMain, SpecCommand, SpecRender, SpecDiag, SpecPreview.   *)
(***************************************************************************)
EXTENDS Integers, Sequences, FiniteSets, TLC

VARIABLES
  \* ---- source overlay (ProjectWorld) ----
  slots,        \* HashMap<FileId, PathSlot>: a function whose domain is the set of slots
  main,         \* ProjectWorld.main: Option<FileId>
  disk,         \* the project files on disk that may change during a session
  readers,      \* in-flight World::source / World::file calls, one per caller
  last,         \* the call that completed in the last step: its arguments and result
  overridden,   \* per id, the content of its latest override and what it replaced
  diskReads,    \* per (id, kind), the number of disk reads and the first one's outcome
  tokenFlag,    \* the AtomicBool a CancellableWorld holds
  \* ---- compile orchestrator (Compiler, compile_job) ----
  mailbox,      \* the watch channel's value: Option<CompileRequest>
  mbVer,        \* the watch channel's version: the number of sends
  seenVer,      \* the version the receiver has marked as seen
  rdPc,         \* where the mailbox reader task is in its loop
  curToken,     \* current_cancel_token: the index of the latest token, 0 for None
  tokens,       \* the flag of every token minted so far, in minting order
  jobs,         \* the compile jobs dispatched so far, in dispatch order
  worldLock,    \* the holder of the project.world mutex, 0 when free
  document,     \* project.cache.document: Option<PagedDocument>
  events,       \* the compile events emitted so far
  nextId,       \* the request id of the next submission
  dropped,      \* the ids of requests overwritten in the mailbox before they were taken
  \* ---- compile command (typst_compile) ----
  counter,      \* project.current_compile_request_id
  poisoned,     \* the session's locks that a panicking holder has poisoned
  \* ---- page render cache (IncrementalRenderer) ----
  page_cache,     \* HashMap<usize, PageRenderCache>: a function on the cached indices
  render_version, \* the version number
  call,           \* the renderer call made in the last step, and the one before it
  \* ---- project configuration and ipc payloads ----
  config,       \* ProjectConfig.main: the configured default main entry, if any
  ipc           \* the payload handler run in the last step: its inputs and its output

worldVars ==
  <<slots, main, disk, readers, last, overridden, diskReads, tokenFlag>>

orchVars ==
  <<mailbox, mbVer, seenVer, rdPc, curToken, tokens, jobs, worldLock, document,
    events, nextId, dropped, counter, poisoned>>

renderVars == <<page_cache, render_version, call>>

hostVars == <<config, ipc>>

vars == <<worldVars, orchVars, renderVars, hostVars>>

-----------------------------------------------------------------------------
(* Text, bytes and their conversions.                                      *)

\* str::as_bytes for one character: its UTF-8 encoding. The model alphabet
\* is "a", "b" and "E", which stands for a two-byte character.
Utf8(c) == IF c = "a" THEN <<97>> ELSE IF c = "b" THEN <<98>> ELSE <<195, 169>>

RECURSIVE AsBytes(_)
\* String::as_bytes: the concatenated encodings of the characters.
AsBytes(text) ==
  IF text = <<>> THEN <<>> ELSE Utf8(Head(text)) \o AsBytes(Tail(text))

RECURSIVE FromUtf8(_)
\* String::from_utf8 as fs::read_to_string applies it: the decoded text, or
\* a failure on a byte sequence that is not valid UTF-8.
FromUtf8(bytes) ==
  IF bytes = <<>> THEN [ok |-> TRUE, text |-> <<>>]
  ELSE LET b == Head(bytes) IN
       IF b = 97 \/ b = 98
       THEN LET r == FromUtf8(Tail(bytes)) IN
            IF r.ok THEN [ok |-> TRUE, text |-> <<(IF b = 97 THEN "a" ELSE "b")>> \o r.text]
            ELSE r
       ELSE IF b = 195 /\ Len(bytes) >= 2 /\ bytes[2] = 169
       THEN LET r == FromUtf8(Tail(Tail(bytes))) IN
            IF r.ok THEN [ok |-> TRUE, text |-> <<"E">> \o r.text] ELSE r
       ELSE [ok |-> FALSE, text |-> <<>>]

\* Results: FileResult<T> as a record, Option<FileResult<T>> with NoneCell.
NoneCell == [tag |-> "none"]
Ok(v) == [tag |-> "ok", val |-> v]
Err(e) == [tag |-> "err", err |-> e]

RECURSIVE CommonPrefixLen(_, _)
CommonPrefixLen(a, b) ==
  IF a = <<>> \/ b = <<>> \/ Head(a) # Head(b) THEN 0
  ELSE 1 + CommonPrefixLen(Tail(a), Tail(b))

Reverse(s) == [i \in 1..Len(s) |-> s[Len(s) + 1 - i]]

BadReplace(old, new) ==
  LET p == CommonPrefixLen(old, new)
  IN  SubSeq(old, 1, p) \o SubSeq(new, p + 1, Len(new)) \o SubSeq(old, p + 1, Len(old))

\* Source::replace: keeps the common prefix and suffix of the old and the new
\* text and replaces only the differing middle, in place.
Replace(old, new) ==
  LET p  == CommonPrefixLen(old, new)
      ro == SubSeq(old, p + 1, Len(old))
      rn == SubSeq(new, p + 1, Len(new))
      s  == CommonPrefixLen(Reverse(ro), Reverse(rn))
  IN  SubSeq(old, 1, p) \o SubSeq(rn, 1, Len(rn) - s)
        \o SubSeq(old, Len(old) - s + 1, Len(old))

-----------------------------------------------------------------------------
(* File ids, paths and the file system.                                    *)

NoPkg == "nopkg"

\* FileId::new(package, vpath)
FileId(pkg, vpath) == [pkg |-> pkg, vpath |-> vpath]

RECURSIVE Normalize(_, _)
\* VirtualPath::new: lexical normalisation; "." is dropped, ".." removes the
\* component before it, and a ".." with nothing before it is kept.
Normalize(done, rest) ==
  IF rest = <<>> THEN done
  ELSE LET c == Head(rest) IN
       IF c = "." THEN Normalize(done, Tail(rest))
       ELSE IF c = ".." /\ done # <<>> /\ done[Len(done)] # ".."
       THEN Normalize(SubSeq(done, 1, Len(done) - 1), Tail(rest))
       ELSE Normalize(Append(done, c), Tail(rest))

VirtualPathNew(path) == Normalize(<<>>, path)

\* The project root directory.
Root == <<"root">>

\* A resolution that joins any path to the root.
ResolveAnywhere(root, vpath) == [some |-> TRUE, path |-> root \o vpath]

\* VirtualPath::resolve(root): None when the path leaves the root.
Resolve(root, vpath) ==
  IF \E i \in 1..Len(vpath) : vpath[i] = ".." THEN [some |-> FALSE, path |-> <<>>]
  ELSE [some |-> TRUE, path |-> root \o vpath]

\* The paths a caller passes to slot_update.
EditPaths == {<<"main.typ">>, <<"sub", "..", "main.typ">>, <<"..", "esc.typ">>}

MainId == FileId(NoPkg, <<"main.typ">>)
EscId == FileId(NoPkg, <<"..", "esc.typ">>)
PkgAId == FileId("pkgA", <<"lib.typ">>)
PkgBId == FileId("pkgB", <<"lib.typ">>)

\* The ids the compiler and the commands ask for.
Ids == {MainId, EscId, PkgAId, PkgBId}

\* The package directories that exist: pkgA only under the cache directory,
\* pkgC under both, pkgB under neither.
DirExists(where, pkg) ==
  \/ where = "cache" /\ pkg \in {"pkgA", "pkgC"}
  \/ where = "data" /\ pkg = "pkgC"

\* A lookup that tries the cache directory first.
PrepareCacheFirst(pkg) ==
  IF DirExists("cache", pkg) THEN Ok(<<"cache", pkg>>)
  ELSE IF DirExists("data", pkg) THEN Ok(<<"data", pkg>>)
  ELSE Err("PackageNotFound")

\* ProjectWorld::prepare_package: the data directory first, then the cache.
PreparePackage(pkg) ==
  IF DirExists("data", pkg) THEN Ok(<<"data", pkg>>)
  ELSE IF DirExists("cache", pkg) THEN Ok(<<"cache", pkg>>)
  ELSE Err("PackageNotFound")

\* The root and path resolution shared by slot_update, source and file.
ResolveId(id) ==
  LET pr == IF id.pkg # NoPkg THEN PreparePackage(id.pkg) ELSE Ok(Root)
  IN  IF pr.tag = "err" THEN pr
      ELSE LET r == Resolve(pr.val, id.vpath)
           IN  IF r.some THEN Ok(r.path) ELSE Err("AccessDenied")

Missing == [exists |-> FALSE, bytes |-> <<>>]
File(bytes) == [exists |-> TRUE, bytes |-> bytes]

MainPath == Root \o <<"main.typ">>

\* What main.typ may hold on disk: nothing, valid text, or bytes that are
\* not valid UTF-8.
DiskStates == {Missing, File(<<98>>), File(<<195>>)}

\* The file at a path: main.typ changes during a session, package files are
\* installed once.
FileAt(path) ==
  IF path = MainPath THEN disk
  ELSE IF path[1] \in {"data", "cache"} THEN File(<<97, 98>>)
  ELSE Missing

\* fs::read(path).map(Bytes::new).map_err(FileError::from_io)
FsRead(path) ==
  LET f == FileAt(path) IN IF f.exists THEN Ok(f.bytes) ELSE Err("NotFound")

\* fs::read_to_string(path).map_err(FileError::from_io).map(Source::new)
FsReadToString(path) ==
  LET f == FileAt(path) IN
  IF ~f.exists THEN Err("NotFound")
  ELSE LET d == FromUtf8(f.bytes) IN
       IF d.ok THEN Ok(d.text) ELSE Err("InvalidUtf8")

-----------------------------------------------------------------------------
(* The source overlay: ProjectWorld and PathSlot.                          *)

\* The contents callers pass to slot_update.
Texts == {<<"a">>, <<"E", "b">>}

Some(v) == [some |-> TRUE, val |-> v]
NoneOpt == [some |-> FALSE]

\* PathSlot { id, path, source: RwLock::new(None), buffer: RwLock::new(None) }
NewSlot(path) == [path |-> path, source |-> NoneCell, buffer |-> NoneCell]

\* An insertion into a fresh map.
InsertAlone(s, id, slot) ==
  [i \in {id} |-> IF id \in DOMAIN s THEN s[id] ELSE slot]

\* HashMap::insert / entry().or_insert_with on the slot map.
Insert(s, id, slot) ==
  [i \in DOMAIN s \cup {id} |-> IF i = id /\ id \notin DOMAIN s THEN slot ELSE s[i]]

\* slot_update's arm for an existing Ok source, as a cache invalidation.
InvalidateSource(old, text) == IF old.tag = "ok" THEN NoneCell ELSE Ok(text)

\* slot_update lines 60-68: an existing Ok source is replaced in place, any
\* other state (None, a memoized error) gets a new Source.
UpdateSource(old, text) ==
  IF old.tag = "ok" THEN Ok(Replace(old.val, text)) ELSE Ok(text)

\* ProjectWorld::slot_update(path, content): the new slot map and the result.
SlotUpdate(s, path, content) ==
  LET id == FileId(NoPkg, VirtualPathNew(path))
      r  == ResolveId(id)
  IN  IF id \notin DOMAIN s /\ r.tag = "err" THEN [slots |-> s, res |-> r]
      ELSE LET s1 == IF id \in DOMAIN s THEN s ELSE Insert(s, id, NewSlot(r.val))
           IN  IF ~content.some THEN [slots |-> s1, res |-> Ok(id)]
               ELSE [slots |-> [s1 EXCEPT ![id] =
                                  [path   |-> @.path,
                                   buffer |-> Ok(AsBytes(content.val)),
                                   source |-> UpdateSource(@.source, content.val)]],
                     res |-> Ok(id)]

\* The two resolution calls: World::source and World::file.
Kinds == {"source", "file"}

\* The cell a call of the given kind reads: source or buffer.
Cell(slot, kind) == IF kind = "source" THEN slot.source ELSE slot.buffer

SetCell(slot, kind, v) ==
  IF kind = "source" THEN [slot EXCEPT !.source = v] ELSE [slot EXCEPT !.buffer = v]

\* The disk read of PathSlot::source (line 237) and PathSlot::file (line 256).
DiskRead(slot, kind) ==
  IF kind = "source" THEN FsReadToString(slot.path) ELSE FsRead(slot.path)

\* A memoization that keeps successes only.
MemoizeOkOnly(result) == IF result.tag = "ok" THEN result ELSE NoneCell

\* PathSlot::source line 240 / PathSlot::file line 259: *guard = Some(result).
Memoize(result) == result

\* PathSlot::source / PathSlot::file under the write guard: the memoized
\* result when there is one, else one disk read whose outcome is memoized.
\* Yields the slot afterwards, the result and whether the disk was read.
SlotRead(slot, kind) ==
  IF Cell(slot, kind).tag # "none"
  THEN [slot |-> slot, res |-> Cell(slot, kind), read |-> FALSE]
  ELSE LET result == DiskRead(slot, kind)
       IN  [slot |-> SetCell(slot, kind, Memoize(result)), res |-> result, read |-> TRUE]

\* World::source / World::file run by one caller alone: the map lookup, the
\* insertion of an absent slot and the slot's read. Yields the slot map
\* afterwards, the result and whether the disk was read.
WorldRead(s, id, kind) ==
  IF id \in DOMAIN s
  THEN LET r == SlotRead(s[id], kind)
       IN  [slots |-> [s EXCEPT ![id] = r.slot], res |-> r.res, read |-> r.read]
  ELSE LET rp == ResolveId(id) IN
       IF rp.tag = "err" THEN [slots |-> s, res |-> rp, read |-> FALSE]
       ELSE LET s1 == Insert(s, id, NewSlot(rp.val))
                r  == SlotRead(s1[id], kind)
            IN  [slots |-> [s1 EXCEPT ![id] = r.slot], res |-> r.res, read |-> r.read]

\* What a caller can observe of a slot map: which slots there are and what
\* source and file return for every id.
Observable(s) ==
  [dom |-> DOMAIN s,
   reads |-> [id \in Ids |-> [k \in Kinds |-> WorldRead(s, id, k).res]]]

\* CancellableWorld::check_cancellation: the error once the token is flagged.
CheckCancellation(flag) == IF flag THEN Err("cancelled") ELSE Ok("go")

\* A guard that refuses every call.
GuardRefuses(flag) == Err("cancelled")

\* What CancellableWorld::source / file do before they call the wrapped
\* world (cancellation.rs lines 44-50): nothing, they delegate at once.
GuardSource(flag) == Ok("go")

\* The callers of World::source / World::file: c1 is the compiler, which
\* calls through the CancellableWorld; c2 calls the ProjectWorld directly.
Callers == {"c1", "c2"}
Via(p) == IF p = "c1" THEN "guard" ELSE "direct"

\* A caller: where it is in its call, what it asked for, and whether the
\* token was flagged when it called.
Idle == [pc |-> "idle", id |-> MainId, kind |-> "source", fl |-> FALSE]
Calling(pc, id, kind, fl) == [pc |-> pc, id |-> id, kind |-> kind, fl |-> fl]

\* The callers that hold the slot map's read lock.
SlotsReadHeld == {p \in Callers : readers[p].pc = "fill"}

NoOp == [op |-> "none"]

InitWorld ==
  /\ slots = << >>
  /\ main = NoneOpt
  /\ disk \in DiskStates
  /\ readers = [p \in Callers |-> Idle]
  /\ last = NoOp
  /\ overridden = [i \in Ids |-> NoneOpt]
  /\ diskReads = [i \in Ids |-> [k \in Kinds |-> [n |-> 0, first |-> NoneCell]]]
  /\ tokenFlag = FALSE

\* A source / file call returns res to caller p.
Return(p, id, kind, res, read, fl) ==
  /\ last' = [op |-> "read", via |-> Via(p), id |-> id, kind |-> kind, res |-> res,
              read |-> read, flagged |-> fl]
  /\ readers' = [readers EXCEPT ![p] = Idle]

CountRead(id, kind, read, res) ==
  diskReads' = [diskReads EXCEPT ![id][kind] =
                  IF read THEN [n |-> @.n + 1, first |-> IF @.n = 0 THEN res ELSE @.first]
                  ELSE @]

\* What slot_update found in the slot of id.
Prior(id) ==
  IF id \notin DOMAIN slots THEN "absent"
  ELSE IF id \in Ids /\ overridden[id].some THEN "override"
  ELSE IF slots[id].source.tag = "err" \/ slots[id].buffer.tag = "err" THEN "error"
  ELSE IF slots[id].source.tag = "ok" \/ slots[id].buffer.tag = "ok" THEN "disk"
  ELSE "empty"

\* A command calls slot_update(path, Some(text)); the slot map's write lock
\* waits for the callers that hold its read lock.
Update(path, text) ==
  /\ SlotsReadHeld = {}
  /\ LET id == FileId(NoPkg, VirtualPathNew(path))
         u  == SlotUpdate(slots, path, Some(text))
     IN  /\ slots' = u.slots
         /\ last' = [op |-> "update", id |-> id, text |-> text, prior |-> Prior(id),
                     ok |-> u.res.tag = "ok", same |-> Observable(u.slots) = Observable(slots),
                     rep |-> /\ last.op = "update"
                             /\ last.ok /\ last.id = id /\ last.text = text]
         /\ overridden' = IF u.res.tag = "ok" /\ id \in Ids
                          THEN [overridden EXCEPT ![id] =
                                  [some |-> TRUE, val |-> text, prior |-> Prior(id)]]
                          ELSE overridden
  /\ UNCHANGED <<main, disk, readers, diskReads, tokenFlag>>
  /\ UNCHANGED <<orchVars, renderVars, hostVars>>

\* World::source / World::file lines 145-148 with PathSlot lines 226-230:
\* under the map's read lock; a present slot with a memoized result returns
\* it, a present slot without one goes on to the slot's write lock, an
\* absent slot drops the read lock and goes on to the map's write lock.
ReadBegin(p, id, kind) ==
  /\ readers[p].pc = "idle"
  /\ LET fl == tokenFlag /\ Via(p) = "guard" IN
     IF Via(p) = "guard" /\ GuardSource(tokenFlag).tag = "err"
     THEN Return(p, id, kind, GuardSource(tokenFlag), FALSE, fl)
     ELSE IF id \in DOMAIN slots
     THEN IF Cell(slots[id], kind).tag # "none"
          THEN Return(p, id, kind, SlotRead(slots[id], kind).res, FALSE, fl)
          ELSE /\ readers' = [readers EXCEPT ![p] = Calling("fill", id, kind, fl)]
               /\ last' = NoOp
     ELSE /\ readers' = [readers EXCEPT ![p] = Calling("insert", id, kind, fl)]
          /\ last' = NoOp
  /\ UNCHANGED <<slots, main, disk, overridden, diskReads, tokenFlag>>
  /\ UNCHANGED <<orchVars, renderVars, hostVars>>

\* PathSlot::source / file lines 232-241: under the slot's write lock (the
\* map's read lock still held), re-check, then read the disk and memoize.
ReadFill(p) ==
  /\ readers[p].pc = "fill"
  /\ LET id == readers[p].id
         kind == readers[p].kind
         r == SlotRead(slots[id], kind)
     IN  /\ slots' = [slots EXCEPT ![id] = r.slot]
         /\ CountRead(id, kind, r.read, r.res)
         /\ Return(p, id, kind, r.res, r.read, readers[p].fl)
  /\ UNCHANGED <<main, disk, overridden, tokenFlag>>
  /\ UNCHANGED <<orchVars, renderVars, hostVars>>

\* World::source / World::file lines 151-166: under the map's write lock,
\* resolve the path (an error returns without a slot), insert the slot
\* unless it is there by now, and read it.
ReadInsert(p) ==
  /\ readers[p].pc = "insert"
  /\ SlotsReadHeld = {}
  /\ LET id == readers[p].id
         kind == readers[p].kind
         r == WorldRead(slots, id, kind)
     IN  /\ slots' = r.slots
         /\ CountRead(id, kind, r.read, r.res)
         /\ Return(p, id, kind, r.res, r.read, readers[p].fl)
  /\ UNCHANGED <<main, disk, overridden, tokenFlag>>
  /\ UNCHANGED <<orchVars, renderVars, hostVars>>

\* Another program writes or removes main.typ on disk.
DiskWrite(f) ==
  /\ f # disk
  /\ disk' = f
  /\ last' = NoOp
  /\ UNCHANGED <<slots, main, readers, overridden, diskReads, tokenFlag>>
  /\ UNCHANGED <<orchVars, renderVars, hostVars>>

\* The orchestrator flags the token the guard holds (service.rs line 48).
FlagToken ==
  /\ ~tokenFlag
  /\ tokenFlag' = TRUE
  /\ last' = NoOp
  /\ UNCHANGED <<slots, main, disk, readers, overridden, diskReads>>
  /\ UNCHANGED <<orchVars, renderVars, hostVars>>

\* One caller of the overlay at a time, while edits arrive and the disk
\* changes.
NextWorld ==
  \/ \E path \in EditPaths, text \in Texts : Update(path, text)
  \/ \E id \in Ids, kind \in Kinds : ReadBegin("c2", id, kind)
  \/ ReadFill("c2")
  \/ ReadInsert("c2")
  \/ \E f \in DiskStates : DiskWrite(f)

\* The ids whose files exist to be read: a project file and a package file.
RaceIds == {MainId, PkgAId}

\* Two callers racing on the overlay (the compiler's threads share the
\* world they are given), while edits arrive and the disk changes.
NextRace ==
  \/ \E text \in Texts : Update(<<"main.typ">>, text)
  \/ \E p \in Callers, id \in RaceIds, kind \in Kinds : ReadBegin(p, id, kind)
  \/ \E p \in Callers : ReadFill(p)
  \/ \E p \in Callers : ReadInsert(p)
  \/ \E f \in DiskStates : DiskWrite(f)

\* The compiler alone, calling through the guard while edits arrive and the
\* token is flagged.
NextGuard ==
  \/ \E path \in EditPaths, text \in Texts : Update(path, text)
  \/ \E id \in Ids, kind \in Kinds : ReadBegin("c1", id, kind)
  \/ ReadFill("c1")
  \/ ReadInsert("c1")
  \/ \E f \in DiskStates : DiskWrite(f)
  \/ FlagToken

\* A file of the package that is installed under both directories.
PkgCId == FileId("pkgC", <<"lib.typ">>)

\* The package files the compiler asks for: of a package under the cache
\* directory only, of one under neither directory and of one under both.
PackageIds == {PkgAId, PkgBId, PkgCId}

\* The compiler's imports: one caller reading package files.
NextPackage ==
  \/ \E id \in PackageIds, kind \in Kinds : ReadBegin("c2", id, kind)
  \/ ReadFill("c2")
  \/ ReadInsert("c2")

-----------------------------------------------------------------------------
(* The compile orchestrator: Compiler::new's mailbox reader and            *)
(* compile_job (service.rs).                                               *)

\* The number of compile requests the editor submits.
MaxReq == 3

\* What a request can look like: an edit of main.typ, an edit of a path
\* outside the project root, and an edit sent from a window that is gone.
ReqShapes ==
  {[path |-> <<"main.typ">>, content |-> t, window |-> "main"] : t \in Texts}
    \cup {[path |-> <<"..", "esc.typ">>, content |-> <<"a">>, window |-> "main"],
          [path |-> <<"main.typ">>, content |-> <<"a">>, window |-> "closed"]}

\* app.get_window(label): every window but the one that was closed.
WindowExists(label) == label # "closed"

\* typst::compile's result.output: Ok(document) or Err(diagnostics).
CompileOutcomes == {"ok", "err"}

\* A watch channel that keeps a value nobody has taken yet.
KeepPending(old, req) ==
  IF old.some /\ ~old.taken THEN old ELSE [some |-> TRUE, val |-> req, taken |-> FALSE]

\* watch::Sender::send: the new value replaces the channel's value.
WatchSend(old, req) == [some |-> TRUE, val |-> req, taken |-> FALSE]

\* A reader that leaves the running job's token alone.
CancelNothing(toks, cur) == toks

\* service.rs lines 47-49: flag the token of the running job, if any.
CancelCurrent(toks, cur) == IF cur = 0 THEN toks ELSE [toks EXCEPT ![cur] = TRUE]

\* A gate that lets every job through.
GateOpen(flag) == FALSE

\* service.rs line 141: the job is discarded when its token is flagged.
GateDiscards(flag) == flag

\* ProjectWorld::is_main_set on a main entry.
IsMainSet(m) == m.some

\* ProjectWorld::set_main_path: the project file at the path is the main entry.
SetMainPath(path) == Some(FileId(NoPkg, VirtualPathNew(path)))

\* The default main entry a project can have configured: none, or doc.typ.
Configs == {NoneOpt, Some(<<"doc.typ">>)}

\* ProjectConfig::apply_main: the configured default becomes the main entry;
\* an error when the project has none configured.
ApplyMain(cfg) == IF cfg.some THEN Ok(SetMainPath(cfg.val)) ELSE Err("nomain")

\* compile_job lines 123-129: the configured default is applied only when
\* the world has no main entry.
EnsureMain(m, cfg) == IF IsMainSet(m) THEN Ok(m) ELSE ApplyMain(cfg)

NewJob(req, tok) ==
  [id |-> req.id, path |-> req.path, content |-> req.content, window |-> req.window,
   tok |-> tok, pc |-> "start", out |-> "none", text |-> <<>>, gateFlag |-> FALSE, end |-> "running",
   latest |-> nextId - 1, at |-> 0]

InitOrch ==
  /\ mailbox = [some |-> FALSE]
  /\ mbVer = 0
  /\ seenVer = 0
  /\ rdPc = "wait"
  /\ curToken = 0
  /\ tokens = <<>>
  /\ jobs = <<>>
  /\ worldLock = 0
  /\ document = NoneOpt
  /\ events = <<>>
  /\ nextId = 1
  /\ dropped = {}
  /\ counter = 0
  /\ poisoned = {}

\* The overlay's bookkeeping of calls, which the jobs do not use.
worldGhosts == <<disk, readers, last, overridden, diskReads, tokenFlag>>

\* Compiler::update: the editor submits the next request.
Submit(shape) ==
  /\ nextId <= MaxReq
  /\ mailbox' = WatchSend(mailbox, [id |-> nextId, path |-> shape.path,
                                    content |-> shape.content, window |-> shape.window])
  /\ mbVer' = mbVer + 1
  /\ nextId' = nextId + 1
  /\ dropped' = IF mailbox.some /\ ~mailbox.taken
                THEN dropped \cup {mailbox.val.id} ELSE dropped
  /\ UNCHANGED <<seenVer, rdPc, curToken, tokens, jobs, worldLock, document, events>>
  /\ UNCHANGED <<slots, main, worldGhosts, renderVars, hostVars, poisoned, counter>>

\* A reader that joins the jobs it spawned before it looks at the mailbox.
RdWakeAfterJobs ==
  /\ rdPc = "wait"
  /\ mbVer # seenVer
  /\ \A j \in 1..Len(jobs) : jobs[j].pc = "done"
  /\ seenVer' = mbVer
  /\ tokens' = [t \in 1..Len(tokens) |-> t = curToken \/ tokens[t]]
  /\ rdPc' = "grab"
  /\ UNCHANGED <<mailbox, mbVer, curToken, jobs, worldLock, document, events, nextId,
                 dropped>>
  /\ UNCHANGED <<slots, main, worldGhosts, renderVars, hostVars, poisoned, counter>>

\* service.rs lines 45-49: rx.changed() returns once the channel holds an
\* unseen version and marks it seen; the reader flags the current token.
RdWake ==
  /\ rdPc = "wait"
  /\ mbVer # seenVer
  /\ seenVer' = mbVer
  /\ tokens' = CancelCurrent(tokens, curToken)
  /\ rdPc' = "grab"
  /\ UNCHANGED <<mailbox, mbVer, curToken, jobs, worldLock, document, events, nextId,
                 dropped>>
  /\ UNCHANGED <<slots, main, worldGhosts, renderVars, hostVars, poisoned, counter>>

\* service.rs lines 52-74: borrow_and_update takes the latest request and
\* marks it seen; a new token is minted, and the job is spawned when the
\* request's window exists.
RdGrab ==
  /\ rdPc = "grab"
  /\ seenVer' = mbVer
  /\ rdPc' = "wait"
  /\ IF mailbox.some
     THEN /\ mailbox' = [mailbox EXCEPT !.taken = TRUE]
          /\ tokens' = Append(tokens, FALSE)
          /\ curToken' = Len(tokens) + 1
          /\ jobs' = IF WindowExists(mailbox.val.window)
                     THEN Append(jobs, NewJob(mailbox.val, Len(tokens) + 1))
                     ELSE jobs
     ELSE UNCHANGED <<mailbox, tokens, curToken, jobs>>
  /\ UNCHANGED <<mbVer, worldLock, document, events, nextId, dropped>>
  /\ UNCHANGED <<slots, main, worldGhosts, renderVars, hostVars, poisoned, counter>>

\* The job's record when it returns without publishing.
Ended(job, why) == [job EXCEPT !.pc = "done", !.end = why]

\* compile_job lines 96-105: the token checks before the lock and the
\* project lookup; the job returns when its token is flagged or its window
\* has no project.
JStart(j, present) ==
  /\ jobs[j].pc = "start"
  /\ jobs' = [jobs EXCEPT ![j] =
                IF tokens[@.tok] THEN Ended(@, "cancelled")
                ELSE IF ~present THEN Ended(@, "noproject")
                ELSE [@ EXCEPT !.pc = "lock"]]
  /\ UNCHANGED <<mailbox, mbVer, seenVer, rdPc, curToken, tokens, worldLock, document,
                 events, nextId, dropped>>
  /\ UNCHANGED <<slots, main, worldGhosts, renderVars, hostVars, poisoned, counter>>

\* A job that applies its edit and goes on to compile without declaring a
\* main entry.
JLockNoMain(j) ==
  /\ jobs[j].pc = "lock"
  /\ worldLock = 0
  /\ ~tokens[jobs[j].tok]
  /\ LET u == SlotUpdate(slots, jobs[j].path, Some(jobs[j].content))
     IN  u.res.tag = "ok" /\ slots' = u.slots
  /\ jobs' = [jobs EXCEPT ![j].pc = "compile"]
  /\ worldLock' = j
  /\ UNCHANGED <<mailbox, mbVer, seenVer, rdPc, curToken, tokens, document, events,
                 nextId, dropped>>
  /\ UNCHANGED <<main, worldGhosts, renderVars, hostVars, poisoned, counter>>

\* compile_job lines 106-129: take the world lock, check the token, apply
\* the edit and make the edited path the main entry. The job returns, and
\* its guard releases the lock, when the token is flagged, the update fails
\* or no main entry is set.
JLock(j) ==
  /\ jobs[j].pc = "lock"
  /\ worldLock = 0
  /\ LET job == jobs[j]
         u == SlotUpdate(slots, job.path, Some(job.content))
         m == SetMainPath(job.path)
         e == EnsureMain(m, config)
     IN  IF tokens[job.tok]
         THEN /\ jobs' = [jobs EXCEPT ![j] = Ended(job, "cancelled")]
              /\ UNCHANGED <<slots, main, worldLock>>
         ELSE IF u.res.tag = "err"
         THEN /\ jobs' = [jobs EXCEPT ![j] = Ended(job, "updatefailed")]
              /\ slots' = u.slots
              /\ UNCHANGED <<main, worldLock>>
         ELSE /\ slots' = u.slots
              /\ IF e.tag = "err"
                 THEN /\ main' = m
                      /\ jobs' = [jobs EXCEPT ![j] = Ended(job, "nomain")]
                      /\ UNCHANGED worldLock
                 ELSE /\ main' = e.val
                      /\ jobs' = [jobs EXCEPT ![j].pc = "compile"]
                      /\ worldLock' = j
  /\ UNCHANGED <<mailbox, mbVer, seenVer, rdPc, curToken, tokens, document, events,
                 nextId, dropped>>
  /\ UNCHANGED <<worldGhosts, renderVars, hostVars, poisoned, counter>>

\* compile_job lines 132-139: typst::compile on the guarded world reads the
\* main source and returns a document or diagnostics; the lock is dropped.
JCompile(j, outcome) ==
  /\ jobs[j].pc = "compile"
  /\ LET r == WorldRead(slots, main.val, "source")
     IN  /\ slots' = r.slots
         /\ jobs' = [jobs EXCEPT ![j].pc = "gate",
                                 ![j].out = IF r.res.tag = "ok" THEN outcome ELSE "err",
                                 ![j].text = IF r.res.tag = "ok" THEN r.res.val ELSE <<>>]
  /\ worldLock' = 0
  /\ UNCHANGED <<mailbox, mbVer, seenVer, rdPc, curToken, tokens, document, events,
                 nextId, dropped>>
  /\ UNCHANGED <<main, worldGhosts, renderVars, hostVars, poisoned, counter>>

\* compile_job lines 141-146: the token check after the compile.
JGate(j) ==
  /\ jobs[j].pc = "gate"
  /\ LET job == jobs[j]
         flag == tokens[job.tok]
     IN  jobs' = [jobs EXCEPT ![j] =
                    IF GateDiscards(flag)
                    THEN [Ended(job, "aborted") EXCEPT !.gateFlag = flag]
                    ELSE [job EXCEPT !.pc = IF job.out = "ok" THEN "store" ELSE "errlock",
                                     !.gateFlag = flag]]
  /\ UNCHANGED <<mailbox, mbVer, seenVer, rdPc, curToken, tokens, worldLock, document,
                 events, nextId, dropped>>
  /\ UNCHANGED <<slots, main, worldGhosts, renderVars, hostVars, poisoned, counter>>

\* compile_job line 161: the document replaces the cached one.
JStore(j) ==
  /\ jobs[j].pc = "store"
  /\ document' = Some([by |-> j, id |-> jobs[j].id, text |-> jobs[j].text])
  /\ jobs' = [jobs EXCEPT ![j].pc = "emit"]
  /\ UNCHANGED <<mailbox, mbVer, seenVer, rdPc, curToken, tokens, worldLock, events,
                 nextId, dropped>>
  /\ UNCHANGED <<slots, main, worldGhosts, renderVars, hostVars, poisoned, counter>>

\* A compile event, with the newest id submitted when it is emitted.
Event(kind, j) == [kind |-> kind, job |-> j, id |-> jobs[j].id, latest |-> nextId - 1]

\* An Ok arm that emits its event and stays where it is.
JEmitAgain(j) ==
  /\ jobs[j].pc = "emit"
  /\ events' = Append(events, Event("ok", j))
  /\ UNCHANGED <<mailbox, mbVer, seenVer, rdPc, curToken, tokens, jobs, worldLock,
                 document, nextId, dropped>>
  /\ UNCHANGED <<slots, main, worldGhosts, renderVars, hostVars, poisoned, counter>>

\* compile_job lines 163-172: the success event.
JEmit(j) ==
  /\ jobs[j].pc = "emit"
  /\ events' = Append(events, Event("ok", j))
  /\ jobs' = [jobs EXCEPT ![j] = Ended(@, "published")]
  /\ UNCHANGED <<mailbox, mbVer, seenVer, rdPc, curToken, tokens, worldLock, document,
                 nextId, dropped>>
  /\ UNCHANGED <<slots, main, worldGhosts, renderVars, hostVars, poisoned, counter>>

\* A diagnostic lookup that does not wait for the world lock.
JErrLockNoMutex(j) ==
  /\ jobs[j].pc = "errlock"
  /\ worldLock' = j
  /\ slots' = WorldRead(slots, FileId(NoPkg, VirtualPathNew(jobs[j].path)), "source").slots
  /\ jobs' = [jobs EXCEPT ![j].pc = "erremit"]
  /\ UNCHANGED <<mailbox, mbVer, seenVer, rdPc, curToken, tokens, document, events,
                 nextId, dropped>>
  /\ UNCHANGED <<main, worldGhosts, renderVars, hostVars, poisoned, counter>>

\* compile_job lines 181-227: take the world lock again and look up the
\* edited file's source to map the diagnostics.
JErrLock(j) ==
  /\ jobs[j].pc = "errlock"
  /\ worldLock = 0
  /\ worldLock' = j
  /\ slots' = WorldRead(slots, FileId(NoPkg, VirtualPathNew(jobs[j].path)), "source").slots
  /\ jobs' = [jobs EXCEPT ![j].pc = "erremit"]
  /\ UNCHANGED <<mailbox, mbVer, seenVer, rdPc, curToken, tokens, document, events,
                 nextId, dropped>>
  /\ UNCHANGED <<main, worldGhosts, renderVars, hostVars, poisoned, counter>>

\* compile_job lines 229-234: the failure event; the lock guard goes out of
\* scope.
JErrEmit(j) ==
  /\ jobs[j].pc = "erremit"
  /\ events' = Append(events, Event("err", j))
  /\ worldLock' = 0
  /\ jobs' = [jobs EXCEPT ![j] = Ended(@, "published")]
  /\ UNCHANGED <<mailbox, mbVer, seenVer, rdPc, curToken, tokens, document, nextId,
                 dropped>>
  /\ UNCHANGED <<slots, main, worldGhosts, renderVars, hostVars, poisoned, counter>>

JobIds == 1..Len(jobs)

NextService ==
  \/ \E shape \in ReqShapes : Submit(shape)
  \/ RdWake
  \/ RdGrab
  \/ \E j \in JobIds, present \in BOOLEAN : JStart(j, present)
  \/ \E j \in JobIds : JLock(j)
  \/ \E j \in JobIds, outcome \in CompileOutcomes : JCompile(j, outcome)
  \/ \E j \in JobIds : JGate(j)
  \/ \E j \in JobIds : JStore(j)
  \/ \E j \in JobIds : JEmit(j)
  \/ \E j \in JobIds : JErrLock(j)
  \/ \E j \in JobIds : JErrEmit(j)

-----------------------------------------------------------------------------
(* Panics and poisoned locks. A std::sync lock whose holder panics is      *)
(* poisoned: it is released, and every later lock(), read() or write() on  *)
(* it returns an error, which unwrap() turns into a panic of the caller.   *)

\* project.world (Mutex), ProjectWorld.slots (RwLock), the source cell of
\* the main file's slot (RwLock), project.cache (RwLock).
LockNames == {"world", "slots", "cell", "cache"}

\* The locks a job holds exclusively at some point of the step it is about
\* to take from the given position: during the compile the world guard, and
\* inside World::source the slot map's and the cell's write guards; during
\* the store the cache's write guard.
HeldIn(pc) ==
  CASE pc = "compile" -> {{"world"}, {"world", "slots"}, {"world", "slots", "cell"}}
    [] pc = "store" -> {{"cache"}}
    [] OTHER -> {}

\* The locks the job's next step acquires with unwrap(). The world lock is
\* not among them: compile_job takes it with unwrap_or_else(into_inner)
\* (service.rs lines 106-109 and 181-184). slot_update unwraps slots.write()
\* (world.rs line 36) and, for a path inside the root, the cells (lines 58,
\* 60); World::source unwraps slots.read() and the cell (lines 145, 226);
\* the store unwraps cache.write() (service.rs line 161).
Unwraps(job) ==
  CASE job.pc = "lock" ->
         IF tokens[job.tok] THEN {}
         ELSE IF FileId(NoPkg, VirtualPathNew(job.path)) = MainId
         THEN {"slots", "cell"} ELSE {"slots"}
    [] job.pc = "compile" -> {"slots", "cell"}
    [] job.pc = "store" -> {"cache"}
    [] job.pc = "errlock" -> {"slots", "cell"}
    [] OTHER -> {}

\* A job panics in the middle of a step while it holds the given locks: the
\* unwinding drops its guards, which poisons the locks and releases them.
\* The job's record keeps the newest id submitted by then.
Panic(j, locks) ==
  /\ locks \in HeldIn(jobs[j].pc)
  /\ poisoned' = poisoned \cup locks
  /\ jobs' = [jobs EXCEPT ![j] = [Ended(@, "panicked") EXCEPT !.at = nextId - 1]]
  /\ worldLock' = IF worldLock = j THEN 0 ELSE worldLock
  /\ UNCHANGED <<mailbox, mbVer, seenVer, rdPc, curToken, tokens, document, events,
                 nextId, dropped, counter>>
  /\ UNCHANGED <<slots, main, worldGhosts, renderVars, hostVars>>

\* A job's step unwraps a poisoned lock: the job panics. At "lock" and
\* "errlock" it has taken the world lock by then, which it poisons, and in
\* slot_update it holds the slot map's write guard when a cell's unwrap
\* fails, after the buffer was written (world.rs lines 57-60).
PoisonPanic(j) ==
  /\ Unwraps(jobs[j]) \cap poisoned # {}
  /\ jobs[j].pc \in {"lock", "errlock"} => worldLock = 0
  /\ LET job == jobs[j]
         inUpdate == job.pc = "lock" /\ "slots" \notin poisoned
     IN  /\ poisoned' = poisoned
                \cup (IF job.pc \in {"lock", "errlock"} THEN {"world"} ELSE {})
                \cup (IF inUpdate THEN {"slots"} ELSE {})
         /\ slots' = IF inUpdate
                     THEN [slots EXCEPT ![MainId].buffer = Ok(AsBytes(job.content))]
                     ELSE slots
         /\ jobs' = [jobs EXCEPT ![j] = Ended(job, "poisoned")]
  /\ UNCHANGED <<mailbox, mbVer, seenVer, rdPc, curToken, tokens, worldLock, document,
                 events, nextId, dropped, counter>>
  /\ UNCHANGED <<main, worldGhosts, renderVars, hostVars>>

\* The compile service with panicking jobs: a step of the service is taken
\* only by a job whose unwraps succeed.
NextPoison ==
  \/ /\ NextService
     /\ \A j \in JobIds : jobs'[j] # jobs[j] => Unwraps(jobs[j]) \cap poisoned = {}
  \/ \E j \in JobIds, locks \in SUBSET LockNames : Panic(j, locks)
  \/ \E j \in JobIds : PoisonPanic(j)

-----------------------------------------------------------------------------
(* The compile command: typst_compile (ipc/commands/typst.rs), one         *)
(* handler per invocation, run concurrently by the async runtime.          *)

\* A counter that only ever rises.
FetchMax(cur, id) == IF id > cur THEN id ELSE cur

\* typst.rs line 88: current_compile_request_id.store(request_id).
StoreId(cur, id) == id

\* typst.rs lines 96, 125 and 169: the request is stale when the counter
\* no longer holds its id.
IsStale(cur, id) == cur # id

\* The ids of the invocations handled so far.
Invoked == {jobs[j].id : j \in 1..Len(jobs)}

\* typst.rs lines 84-88: the handler looks up the window's project (and
\* returns an error without one) and stores its request id in the counter.
CInvoke(id, shape, present) ==
  /\ id \notin Invoked
  /\ LET job == [NewJob([id |-> id, path |-> shape.path, content |-> shape.content,
                          window |-> "main"], 0)
                   EXCEPT !.latest = FetchMax(nextId - 1, id)]
     IN  IF ~present
         THEN /\ jobs' = Append(jobs, Ended(job, "noproject"))
              /\ UNCHANGED counter
         ELSE /\ jobs' = Append(jobs, [job EXCEPT !.pc = "lock"])
              /\ counter' = StoreId(counter, id)
  /\ nextId' = FetchMax(nextId - 1, id) + 1
  /\ UNCHANGED <<mailbox, mbVer, seenVer, rdPc, curToken, tokens, worldLock, document,
                 events, dropped>>
  /\ UNCHANGED <<slots, main, worldGhosts, renderVars, hostVars, poisoned>>

\* typst.rs lines 91-116: take the world lock, return when a newer request
\* has stored its id, else apply the edit and make the edited path the main
\* entry. A return releases the lock.
CLock(j) ==
  /\ jobs[j].pc = "lock"
  /\ worldLock = 0
  /\ LET job == jobs[j]
         u == SlotUpdate(slots, job.path, Some(job.content))
         m == SetMainPath(job.path)
         e == EnsureMain(m, config)
     IN  IF IsStale(counter, job.id)
         THEN /\ jobs' = [jobs EXCEPT ![j] = Ended(job, "stale")]
              /\ UNCHANGED <<slots, main, worldLock>>
         ELSE IF u.res.tag = "err"
         THEN /\ jobs' = [jobs EXCEPT ![j] = Ended(job, "updatefailed")]
              /\ slots' = u.slots
              /\ UNCHANGED <<main, worldLock>>
         ELSE /\ slots' = u.slots
              /\ IF e.tag = "err"
                 THEN /\ main' = m
                      /\ jobs' = [jobs EXCEPT ![j] = Ended(job, "nomain")]
                      /\ UNCHANGED worldLock
                 ELSE /\ main' = e.val
                      /\ jobs' = [jobs EXCEPT ![j].pc = "compile"]
                      /\ worldLock' = j
  /\ UNCHANGED <<mailbox, mbVer, seenVer, rdPc, curToken, tokens, document, events,
                 nextId, dropped, counter>>
  /\ UNCHANGED <<worldGhosts, renderVars, hostVars, poisoned>>

\* typst.rs line 121: typst::compile on the world itself, under the lock.
CCompile(j, outcome) ==
  /\ jobs[j].pc = "compile"
  /\ LET r == WorldRead(slots, main.val, "source")
     IN  /\ slots' = r.slots
         /\ jobs' = [jobs EXCEPT ![j].pc = "gate",
                                 ![j].out = IF r.res.tag = "ok" THEN outcome ELSE "err",
                                 ![j].text = IF r.res.tag = "ok" THEN r.res.val ELSE <<>>]
  /\ UNCHANGED <<mailbox, mbVer, seenVer, rdPc, curToken, tokens, worldLock, document,
                 events, nextId, dropped, counter>>
  /\ UNCHANGED <<main, worldGhosts, renderVars, hostVars, poisoned>>

\* typst.rs lines 124-129 and 168-173: the counter check after the compile;
\* a stale handler returns, which releases the lock.
CGate(j) ==
  /\ jobs[j].pc = "gate"
  /\ LET job == jobs[j]
         stale == IsStale(counter, job.id)
     IN  IF stale
         THEN /\ jobs' = [jobs EXCEPT ![j] = [Ended(job, "aborted") EXCEPT !.gateFlag = TRUE]]
              /\ worldLock' = 0
         ELSE /\ jobs' = [jobs EXCEPT ![j].pc = IF job.out = "ok" THEN "store" ELSE "erremit"]
              /\ UNCHANGED worldLock
  /\ UNCHANGED <<mailbox, mbVer, seenVer, rdPc, curToken, tokens, document, events,
                 nextId, dropped, counter>>
  /\ UNCHANGED <<slots, main, worldGhosts, renderVars, hostVars, poisoned>>

\* typst.rs line 151: the document replaces the cached one.
CStore(j) ==
  /\ jobs[j].pc = "store"
  /\ document' = Some([by |-> j, id |-> jobs[j].id, text |-> jobs[j].text])
  /\ jobs' = [jobs EXCEPT ![j].pc = "emit"]
  /\ UNCHANGED <<mailbox, mbVer, seenVer, rdPc, curToken, tokens, worldLock, events,
                 nextId, dropped, counter>>
  /\ UNCHANGED <<slots, main, worldGhosts, renderVars, hostVars, poisoned>>

\* typst.rs lines 154-165 and 217: the success event; the handler returns
\* and the lock is released.
CEmit(j) ==
  /\ jobs[j].pc = "emit"
  /\ events' = Append(events, Event("ok", j))
  /\ worldLock' = 0
  /\ jobs' = [jobs EXCEPT ![j] = Ended(@, "published")]
  /\ UNCHANGED <<mailbox, mbVer, seenVer, rdPc, curToken, tokens, document, nextId,
                 dropped, counter>>
  /\ UNCHANGED <<slots, main, worldGhosts, renderVars, hostVars, poisoned>>

\* typst.rs lines 181-217: look up the edited file's source, map the
\* diagnostics, emit the failure event; the handler returns and the lock is
\* released.
CErrEmit(j) ==
  /\ jobs[j].pc = "erremit"
  /\ slots' = WorldRead(slots, FileId(NoPkg, VirtualPathNew(jobs[j].path)), "source").slots
  /\ events' = Append(events, Event("err", j))
  /\ worldLock' = 0
  /\ jobs' = [jobs EXCEPT ![j] = Ended(@, "published")]
  /\ UNCHANGED <<mailbox, mbVer, seenVer, rdPc, curToken, tokens, document, nextId,
                 dropped, counter>>
  /\ UNCHANGED <<main, worldGhosts, renderVars, hostVars, poisoned>>

NextCommand ==
  \/ \E id \in 1..MaxReq, shape \in ReqShapes, present \in BOOLEAN :
       CInvoke(id, shape, present)
  \/ \E j \in JobIds : CLock(j)
  \/ \E j \in JobIds, outcome \in CompileOutcomes : CCompile(j, outcome)
  \/ \E j \in JobIds : CGate(j)
  \/ \E j \in JobIds : CStore(j)
  \/ \E j \in JobIds : CEmit(j)
  \/ \E j \in JobIds : CErrEmit(j)

-----------------------------------------------------------------------------
(* The page render cache: IncrementalRenderer (compiler/incr_renderer.rs). *)

MaxPages == 2
MaxVersion == 2

\* Page frames. A page is identified with its frame.
Pages == {"fa", "fb", "fc"}

\* Page indices a caller passes, and the documents a caller passes.
PageIdx == 0..(MaxPages - 1)
Documents == UNION {[1..n -> Pages] : n \in 0..MaxPages}

\* compute_page_hash: the 128-bit SipHash of the frame, held as its two
\* 64-bit halves. "fa" and "fb" have different hashes; "fc" is a frame whose
\* hash collides with that of "fa"; "fd" is a frame whose hash differs from
\* that of "fa" in the high half only.
ComputePageHash(page) ==
  CASE page = "fa" -> [hi |-> 1, lo |-> 1]
    [] page = "fb" -> [hi |-> 2, lo |-> 2]
    [] page = "fc" -> [hi |-> 1, lo |-> 1]
    [] page = "fd" -> [hi |-> 2, lo |-> 1]

\* hash & 0xFFFFFFFFFFFFFFFF: the low 64 bits.
Low64(hash) == hash.lo

\* generate_data_tid: format!("p{}-{:016x}", page_index, low 64 bits).
GenerateDataTid(hash, page_index) ==
  <<"p", ToString(page_index), "-", ToString(Low64(hash))>>

\* typst_svg::svg: the page's markup, as a sequence of text pieces.
TypstSvg(page) == <<"<svg", " viewBox", ">", page, "</svg>">>

\* str::find on pieces: the first position at or after `from` holding
\* `piece`, 0 when there is none.
Find(text, piece, from) ==
  LET hits == {i \in from..Len(text) : text[i] = piece}
  IN  IF hits = {} THEN 0 ELSE CHOOSE i \in hits : \A k \in hits : i <= k

\* add_data_tid_to_svg: the identifier spliced in before the end of the
\* root element's opening tag; the markup as it is when it has none.
AddDataTidToSvg(svg, data_tid) ==
  LET pos == Find(svg, "<svg", 1) IN
  IF pos = 0 THEN svg
  ELSE LET insert_pos == Find(svg, ">", pos) IN
       IF insert_pos = 0 THEN svg
       ELSE SubSeq(svg, 1, insert_pos - 1) \o <<" data-tid=">> \o data_tid
              \o SubSeq(svg, insert_pos, Len(svg))

\* IncrementalRenderer::new: no entries.
EmptyCache == [k \in {} |-> 0]

\* HashMap::insert.
CacheInsert(cache, k, entry) ==
  [i \in DOMAIN cache \cup {k} |-> IF i = k THEN entry ELSE cache[i]]

\* render_page lines 62-66: the cache holds the page's fingerprint at the index.
IsHit(cache, page_index, page) ==
  /\ page_index \in DOMAIN cache
  /\ cache[page_index].frame_hash = ComputePageHash(page)

\* A fresh rendering that is returned but not stored.
RenderNoStore(cache, page_index, page) ==
  LET frame_hash == ComputePageHash(page)
      data_tid == GenerateDataTid(frame_hash, page_index)
  IN  [cache |-> cache,
       svg |-> AddDataTidToSvg(TypstSvg(page), data_tid),
       flag |-> TRUE]

\* render_page lines 68-78: render, tag, store; the flag is true.
RenderFresh(cache, page_index, page) ==
  LET frame_hash == ComputePageHash(page)
      data_tid == GenerateDataTid(frame_hash, page_index)
      svg_with_tid == AddDataTidToSvg(TypstSvg(page), data_tid)
  IN  [cache |-> CacheInsert(cache, page_index,
                   [frame_hash |-> frame_hash, svg |-> svg_with_tid, data_tid |-> data_tid]),
       svg |-> svg_with_tid,
       flag |-> TRUE]

\* A renderer without the cache lookup.
AlwaysRender(cache, page_index, page) == RenderFresh(cache, page_index, page)

\* render_page: on a hit the stored markup and the flag false, the cache as
\* it was; otherwise a fresh rendering.
RenderPage(cache, page_index, page) ==
  IF IsHit(cache, page_index, page)
  THEN [cache |-> cache, svg |-> cache[page_index].svg, flag |-> FALSE]
  ELSE RenderFresh(cache, page_index, page)

RECURSIVE ChangedOnlyCached(_, _, _)
\* A comparison that reports the pages whose cached fingerprint differs and
\* passes over the pages that have no entry.
ChangedOnlyCached(cache, doc, i) ==
  IF i >= Len(doc) THEN <<>>
  ELSE (IF i \in DOMAIN cache /\ ~IsHit(cache, i, doc[i + 1]) THEN <<i>> ELSE <<>>)
         \o ChangedOnlyCached(cache, doc, i + 1)

RECURSIVE ChangedFrom(_, _, _)
\* get_changed_pages lines 84-91: the indices, in order from i, whose page
\* has no entry or another fingerprint. Indices are 0-based.
ChangedFrom(cache, doc, i) ==
  IF i >= Len(doc) THEN <<>>
  ELSE (IF IsHit(cache, i, doc[i + 1]) THEN <<>> ELSE <<i>>)
         \o ChangedFrom(cache, doc, i + 1)

RECURSIVE Repeat(_, _)
Repeat(v, n) == IF n = 0 THEN <<>> ELSE <<v>> \o Repeat(v, n - 1)

\* get_changed_pages: the changed indices, then the page count once for
\* every cached index at or beyond it.
GetChangedPages(cache, doc) ==
  LET current_count == Len(doc)
  IN  ChangedFrom(cache, doc, 0)
        \o Repeat(current_count, Cardinality({i \in DOMAIN cache : i >= current_count}))

\* is_page_cached.
IsPageCached(cache, page_index, page) == IsHit(cache, page_index, page)

\* get_cached_svg.
GetCachedSvg(cache, page_index) ==
  IF page_index \in DOMAIN cache THEN Some(cache[page_index].svg) ELSE NoneOpt

\* A prune that also retains the entry at max_page.
PruneInclusive(cache, max_page) ==
  [k \in {i \in DOMAIN cache : i <= max_page} |-> cache[k]]

\* prune_pages: retain the keys below max_page.
PrunePages(cache, max_page) ==
  [k \in {i \in DOMAIN cache : i < max_page} |-> cache[k]]

\* What a renderer call record keeps of the call before it.
Summary(c) ==
  [op |-> c.op, page_index |-> c.page_index, page |-> c.page, svg |-> c.svg,
   flag |-> c.flag]

NoCall ==
  [op |-> "none", page_index |-> 0, page |-> "", svg |-> <<>>, flag |-> FALSE,
   changed |-> <<>>, count |-> 0, version |-> 0, doc |-> <<>>]

\* The record of a call: its arguments and results, the cache it found, and
\* the call before it when that was a render_page.
Called(c) ==
  call' = c @@
          [before |-> page_cache,
           prev |-> IF call.op = "render_page" THEN Summary(call) ELSE Summary(NoCall)]

InitRender ==
  /\ page_cache = EmptyCache
  /\ render_version = 0
  /\ call = NoCall @@ [before |-> EmptyCache, prev |-> Summary(NoCall)]

CallRenderPage(page_index, page) ==
  /\ LET r == RenderPage(page_cache, page_index, page)
     IN  /\ page_cache' = r.cache
         /\ Called([NoCall EXCEPT !.op = "render_page", !.page_index = page_index,
                                  !.page = page, !.svg = r.svg, !.flag = r.flag])
  /\ UNCHANGED render_version
  /\ UNCHANGED <<worldVars, orchVars, hostVars>>

CallGetChangedPages(doc) ==
  /\ Called([NoCall EXCEPT !.op = "get_changed_pages", !.count = Len(doc),
                           !.doc = doc,
                           !.changed = GetChangedPages(page_cache, doc)])
  /\ UNCHANGED <<page_cache, render_version>>
  /\ UNCHANGED <<worldVars, orchVars, hostVars>>

CallIsPageCached(page_index, page) ==
  /\ Called([NoCall EXCEPT !.op = "is_page_cached", !.page_index = page_index,
                           !.page = page,
                           !.flag = IsPageCached(page_cache, page_index, page)])
  /\ UNCHANGED <<page_cache, render_version>>
  /\ UNCHANGED <<worldVars, orchVars, hostVars>>

CallGetCachedSvg(page_index) ==
  /\ LET r == GetCachedSvg(page_cache, page_index)
     IN  Called([NoCall EXCEPT !.op = "get_cached_svg", !.page_index = page_index,
                               !.flag = r.some,
                               !.svg = IF r.some THEN r.val ELSE <<>>])
  /\ UNCHANGED <<page_cache, render_version>>
  /\ UNCHANGED <<worldVars, orchVars, hostVars>>

CallPrunePages(max_page) ==
  /\ page_cache' = PrunePages(page_cache, max_page)
  /\ Called([NoCall EXCEPT !.op = "prune_pages", !.count = max_page])
  /\ UNCHANGED render_version
  /\ UNCHANGED <<worldVars, orchVars, hostVars>>

\* reset: the cache is cleared and the version set to 0.
Reset ==
  /\ page_cache' = EmptyCache
  /\ render_version' = 0
  /\ Called([NoCall EXCEPT !.op = "reset"])
  /\ UNCHANGED <<worldVars, orchVars, hostVars>>

\* increment_version: wrapping_add(1) on a u64; the model stops short of
\* the wrap at MaxVersion.
IncrementVersion ==
  /\ render_version < MaxVersion
  /\ render_version' = render_version + 1
  /\ Called([NoCall EXCEPT !.op = "increment_version"])
  /\ UNCHANGED page_cache
  /\ UNCHANGED <<worldVars, orchVars, hostVars>>

\* version.
Version ==
  /\ Called([NoCall EXCEPT !.op = "version", !.version = render_version])
  /\ UNCHANGED <<page_cache, render_version>>
  /\ UNCHANGED <<worldVars, orchVars, hostVars>>

NextRender ==
  \/ \E page_index \in PageIdx, page \in Pages : CallRenderPage(page_index, page)
  \/ \E doc \in Documents : CallGetChangedPages(doc)
  \/ \E page_index \in PageIdx, page \in Pages : CallIsPageCached(page_index, page)
  \/ \E page_index \in PageIdx : CallGetCachedSvg(page_index)
  \/ \E max_page \in 0..MaxPages : CallPrunePages(max_page)
  \/ Reset
  \/ IncrementVersion
  \/ Version

-----------------------------------------------------------------------------
(* The payload of a failure event: the Err arm of compile_job (service.rs  *)
(* lines 174-234) and of typst_compile (typst.rs lines 167-214).           *)

\* The number of diagnostics a compile reports.
MaxDiags == 2

\* typst::diag::Severity
Severities == {"Error", "Warning"}

\* The byte ranges a span lookup can give for a text, on character
\* boundaries or not.
Ranges(content) ==
  {r \in [start : 0..Len(AsBytes(content)), end : 0..Len(AsBytes(content))] :
     r.start <= r.end}

\* A diagnostic of the compiler: span.id(), the file of its span, if any;
\* what source.find gives for the span (no node, or a node's byte range);
\* its severity and its message, which names the file it was raised in.
Diagnostic(file, range, severity) ==
  [file |-> file, range |-> range, severity |-> severity, message |-> file]

\* The diagnostics a compile of the content can report: of the main file
\* with any span lookup outcome, and of a package file or of no file with a
\* span that is not found or that covers the text.
Diagnostics(content) ==
  {Diagnostic(Some(MainId), r, s) :
     r \in {NoneOpt} \cup {Some(x) : x \in Ranges(content)}, s \in Severities}
    \cup {Diagnostic(f, r, s) :
            f \in {Some(PkgAId), NoneOpt},
            r \in {NoneOpt, Some([start |-> 0, end |-> Len(AsBytes(content))])},
            s \in Severities}

\* A UTF-8 continuation byte.
IsContinuation(b) == b >= 128 /\ b < 192

\* str::is_char_boundary
IsCharBoundary(bytes, i) ==
  \/ i = 0
  \/ i = Len(bytes)
  \/ i < Len(bytes) /\ ~IsContinuation(bytes[i + 1])

\* &content[a..b]: the bytes of the slice; a panic when the range is out of
\* bounds or an end is inside a character.
Slice(bytes, a, b) ==
  IF a <= b /\ b <= Len(bytes) /\ IsCharBoundary(bytes, a) /\ IsCharBoundary(bytes, b)
  THEN Ok(SubSeq(bytes, a + 1, b))
  ELSE Err("panic")

\* str::chars().count(): the number of bytes that start a character.
CharsCount(bytes) == Cardinality({i \in 1..Len(bytes) : ~IsContinuation(bytes[i])})

\* match d.severity { Error => Error, Warning => Warning }
SeverityOf(severity) == IF severity = "Error" THEN "error" ELSE "warning"

\* A mapping that publishes the byte range as it is.
RawRange(d, content) ==
  LET bytes == AsBytes(content)
      head  == Slice(bytes, 0, d.range.val.start)
      body  == Slice(bytes, d.range.val.start, d.range.val.end)
  IN  IF head.tag = "err" \/ body.tag = "err" THEN Err("panic")
      ELSE Ok([range    |-> [start |-> d.range.val.start, end |-> d.range.val.end],
               severity |-> SeverityOf(d.severity),
               message  |-> d.message])

\* service.rs lines 210-222: the range of the found node as a range of
\* characters of the edited content.
MapDiagnostic(d, content) ==
  LET bytes == AsBytes(content)
      head  == Slice(bytes, 0, d.range.val.start)
      body  == Slice(bytes, d.range.val.start, d.range.val.end)
  IN  IF head.tag = "err" \/ body.tag = "err" THEN Err("panic")
      ELSE LET start == CharsCount(head.val)
               size  == CharsCount(body.val)
           IN  Ok([range    |-> [start |-> start, end |-> start + size],
                   severity |-> SeverityOf(d.severity),
                   message  |-> d.message])

\* A filter that keeps the diagnostics of every file.
OfAnyFile(d, id) == TRUE

\* service.rs line 207: d.span.id() == Some(id)
OfFile(d, id) == d.file = Some(id)

\* service.rs lines 205-227: the diagnostics of the edited file whose span
\* is found, mapped in order; none when the source lookup failed. A panic
\* of one mapping is a panic of the job.
MapDiagnostics(source_res, id, diagnostics, content) ==
  IF source_res.tag = "ok"
  THEN LET kept   == SelectSeq(diagnostics, LAMBDA d : OfFile(d, id))
           found  == SelectSeq(kept, LAMBDA d : d.range.some)
           mapped == [k \in 1..Len(found) |-> MapDiagnostic(found[k], content)]
       IN  IF \E k \in 1..Len(found) : mapped[k].tag = "err"
           THEN Err("panic")
           ELSE Ok([k \in 1..Len(found) |-> mapped[k].val])
  ELSE Ok(<<>>)

\* TypstCompileEvent { document, diagnostics }
TypstCompileEvent(doc, diagnostics) == [document |-> doc, diagnostics |-> diagnostics]

\* What the Err arm starts from: the request's path and content, the
\* outcome of the source lookup of the edited file and the diagnostics the
\* compile returned.
FailureInput(path, content, source_res, diagnostics) ==
  [op |-> "diagnostics", path |-> path, content |-> content,
   source_res |-> source_res, diagnostics |-> diagnostics]

\* service.rs lines 201-232: map the diagnostics and emit the failure
\* event; a job that panics emits nothing.
Failure ==
  /\ ipc.op = "diagnostics"
  /\ LET id == FileId(NoPkg, VirtualPathNew(ipc.path))
         m  == MapDiagnostics(ipc.source_res, id, ipc.diagnostics, ipc.content)
     IN  ipc' = IF m.tag = "err"
                THEN [op |-> "panicked"] @@ ipc
                ELSE [op |-> "failure",
                      event |-> TypstCompileEvent(NoneOpt, Some(m.val))] @@ ipc
  /\ UNCHANGED <<worldVars, orchVars, renderVars, config>>

NextDiag == Failure

-----------------------------------------------------------------------------
(* The payload of a success event and the on-demand page render: the Ok    *)
(* arm of compile_job (service.rs lines 146-173) and typst_render          *)
(* (typst.rs lines 220-261), with the cached document as its pages.        *)

\* The documents typst::compile returns: a document has a first page.
Compiled == {doc \in Documents : Len(doc) >= 1}

\* frame.width().to_pt() and frame.height().to_pt(): "fb" is a landscape
\* page, the others are portrait pages.
FrameSize(page) ==
  IF page = "fb" THEN [width |-> 842, height |-> 595]
  ELSE [width |-> 595, height |-> 842]

\* service.rs lines 150-154: one SipHash over the frames of all pages in
\* order, held as the sequence of what each frame feeds the hasher.
Fingerprint(doc) == [k \in 1..Len(doc) |-> ComputePageHash(doc[k])]

\* service.rs lines 149-169: TypstDocument { pages, hash, width, height }
TypstDocument(doc) ==
  [pages  |-> Len(doc),
   hash   |-> Fingerprint(doc),
   width  |-> FrameSize(doc[1]).width,
   height |-> FrameSize(doc[1]).height]

\* service.rs lines 147-172: the document replaces the cached one and the
\* success event is emitted.
Success(doc) ==
  /\ document' = Some(doc)
  /\ ipc' = [op |-> "success", event |-> TypstCompileEvent(Some(TypstDocument(doc)), NoneOpt)]
  /\ UNCHANGED <<mailbox, mbVer, seenVer, rdPc, curToken, tokens, jobs, worldLock,
                 events, nextId, dropped, counter, poisoned>>
  /\ UNCHANGED <<worldVars, renderVars, config>>

\* The scale factors and nonces a caller passes.
Scales == {1, 2}
Nonces == {7, 9}

\* TypstRenderResponse { image, width, height, nonce } of a page.
TypstRenderResponse(p, scale, nonce) ==
  [image  |-> TypstSvg(p),
   width  |-> FrameSize(p).width * scale,
   height |-> FrameSize(p).height * scale,
   nonce  |-> nonce]

\* A render that answers an index past the end with the last page.
RenderClamped(cache_doc, present, page, scale, nonce) ==
  IF ~present THEN Err("UnknownProject")
  ELSE IF cache_doc.some /\ Len(cache_doc.val) > 0
  THEN LET last_page == IF page < Len(cache_doc.val) THEN page + 1 ELSE Len(cache_doc.val)
       IN  Ok(TypstRenderResponse(cache_doc.val[last_page], scale, nonce))
  ELSE Err("Unknown")

\* typst.rs lines 230-260: the response for the page of the cached
\* document, or an error without a project, a document or such a page.
TypstRender(cache_doc, present, page, scale, nonce) ==
  IF ~present THEN Err("UnknownProject")
  ELSE IF cache_doc.some /\ page < Len(cache_doc.val)
  THEN Ok(TypstRenderResponse(cache_doc.val[page + 1], scale, nonce))
  ELSE Err("Unknown")

\* typst_render, called by the window.
CallTypstRender(present, page, scale, nonce) ==
  /\ ipc' = [op |-> "render", present |-> present, page |-> page, scale |-> scale,
             nonce |-> nonce, res |-> TypstRender(document, present, page, scale, nonce)]
  /\ UNCHANGED <<worldVars, orchVars, renderVars, config>>

NextPreview ==
  \/ \E doc \in Compiled : Success(doc)
  \/ \E present \in BOOLEAN, page \in 0..MaxPages, scale \in Scales, nonce \in Nonces :
       CallTypstRender(present, page, scale, nonce)

-----------------------------------------------------------------------------
(* Specifications.                                                         *)

\* No payload handler has run.
NoIpc == [op |-> "none"]

\* A project without a configured default main entry.
InitHost ==
  /\ config = NoneOpt
  /\ ipc = NoIpc

Init == InitWorld /\ InitOrch /\ InitRender /\ InitHost

\* The overlay with one caller.
SpecWorld == Init /\ [][NextWorld]_vars

\* The overlay with two racing callers.
SpecRace == Init /\ [][NextRace]_vars

\* The overlay asked for package files.
SpecPackage == Init /\ [][NextPackage]_vars

\* The overlay called through the cancellation guard.
SpecGuard == Init /\ [][NextGuard]_vars

InitService == Init /\ disk = Missing

\* The compile service: the editor, the mailbox reader and the jobs.
SpecService == InitService /\ [][NextService]_vars

\* The compile service with a fairly scheduled reader task: the runtime
\* polls the reader when the channel wakes it, whatever the jobs do. The
\* jobs run on blocking worker threads and are given no fairness.
SpecReader ==
  InitService /\ [][NextService]_vars /\ WF_vars(RdWake) /\ WF_vars(RdGrab)

\* The compile service in a project with or without a configured default
\* main entry.
InitMain ==
  /\ InitWorld /\ InitOrch /\ InitRender
  /\ disk = Missing
  /\ config \in Configs
  /\ ipc = NoIpc

SpecMain == InitMain /\ [][NextService]_vars

\* The compile service with jobs that may panic while they hold locks.
SpecPoison == InitService /\ [][NextPoison]_vars

\* The Err arm applied to the result of one failed compile that reported at
\* most MaxDiags diagnostics.
InitDiag ==
  /\ InitWorld /\ InitOrch /\ InitRender
  /\ disk = Missing
  /\ config = NoneOpt
  /\ \E path \in {<<"main.typ">>, <<"sub", "..", "main.typ">>}, content \in Texts,
        n \in 0..MaxDiags :
       \E source_res \in {Ok(content), Err("notfound")},
          diagnostics \in [1..n -> Diagnostics(content)] :
         ipc = FailureInput(path, content, source_res, diagnostics)

SpecDiag == InitDiag /\ [][NextDiag]_vars

\* Successful compiles and on-demand page renders of one session.
SpecPreview == InitService /\ [][NextPreview]_vars

\* The compile command: concurrent typst_compile handlers.
SpecCommand == InitService /\ [][NextCommand]_vars

\* The page render cache under any sequence of calls.
SpecRender == InitService /\ [][NextRender]_vars

-----------------------------------------------------------------------------
(* Claims about the source overlay and the guard.                          *)

\* What source / file return for content X: X as text, X's bytes.
Expected(kind, text) == IF kind = "source" THEN Ok(text) ELSE Ok(AsBytes(text))

\* C2 (as claimed): a source / file call made through the guard after the
\* token was flagged returns the cancellation error and reads nothing.
C2_FlaggedGuardCancels ==
  (last.op = "read" /\ last.via = "guard" /\ last.flagged)
    => (last.res = CheckCancellation(TRUE) /\ ~last.read)

\* C7: right after a successful update(path, X), source and file for the
\* path's id return X and X's bytes without a disk read; and every source /
\* file call that returns for an overridden id returns the override, without
\* a disk read, whatever the slot held before the override.
C7_UpdateThenRead ==
  /\ (last.op = "update" /\ last.ok) =>
       \A kind \in Kinds :
         LET r == WorldRead(slots, last.id, kind)
         IN  r.res = Expected(kind, last.text) /\ ~r.read /\ r.slots = slots
  /\ (last.op = "read" /\ overridden[last.id].some) =>
       /\ last.res = Expected(last.kind, overridden[last.id].val)
       /\ ~last.read

\* A call returned the override of a slot that held a memoized error.
C7_Witness ==
  /\ last.op = "read"
  /\ overridden[last.id].some
  /\ overridden[last.id].prior = "error"
  /\ last.res = Expected(last.kind, overridden[last.id].val)

\* C8: update(path, X) applied twice in a row leaves the overlay as one
\* application does: the same slots and the same source / file result for
\* every id. Checked for every path and content in every reachable state,
\* and for every repeated update the callers made.
C8_UpdateIdempotent ==
  /\ \A path \in EditPaths, text \in Texts :
       LET once  == SlotUpdate(slots, path, Some(text))
           twice == SlotUpdate(once.slots, path, Some(text))
       IN  Observable(twice.slots) = Observable(once.slots) /\ twice.res = once.res
  /\ (last.op = "update" /\ last.rep) => last.same

\* The same update was made twice in a row, on a slot that first held a
\* value read from disk.
C8_Witness ==
  /\ last.op = "update" /\ last.rep /\ last.ok
  /\ overridden[last.id].prior = "override"
  /\ diskReads[last.id]["source"].n = 1

\* C9: for an id without an override the disk is read at most once per kind,
\* and every source / file call that returns after that read returns the
\* outcome of that read, success or error, whatever the disk holds by then.
C9_ReadOnceMemoized ==
  /\ \A id \in Ids, kind \in Kinds : diskReads[id][kind].n <= 1
  /\ (last.op = "read" /\ ~overridden[last.id].some
        /\ diskReads[last.id][last.kind].n >= 1) =>
       /\ last.res = diskReads[last.id][last.kind].first
       /\ last.id \in DOMAIN slots
       /\ Cell(slots[last.id], last.kind) = last.res

\* A call returned a memoized error without reading the disk although the
\* file has become readable since.
C9_Witness ==
  /\ last.op = "read" /\ ~last.read
  /\ last.id = MainId /\ last.kind = "source"
  /\ ~overridden[MainId].some
  /\ last.res.tag = "err"
  /\ FsReadToString(MainPath).tag = "ok"

-----------------------------------------------------------------------------
(* Claims about the compile service.                                       *)

\* C1 (as claimed): an event is published for a request only if its id is
\* the newest id submitted by the time it is published.
C1_OnlyNewestPublished ==
  \A k \in 1..Len(events) : events[k].id = events[k].latest

\* C3: at most one minted token is unflagged, and it is the latest one:
\* when a token is minted, every token minted before it is already flagged.
C3_OneLiveToken ==
  /\ Cardinality({t \in 1..Len(tokens) : ~tokens[t]}) <= 1
  /\ \A t \in 1..Len(tokens) : t < Len(tokens) => tokens[t]

\* A second token is minted while the first job is still running, and the
\* first job's token is flagged.
C3_Witness ==
  /\ Len(tokens) >= 2
  /\ ~tokens[Len(tokens)]
  /\ Len(jobs) >= 2
  /\ jobs[1].pc \notin {"start", "done"}
  /\ tokens[jobs[1].tok]

\* C4: a request overwritten in the mailbox before the reader took it is
\* never dispatched; every job was dispatched for the newest request
\* submitted by then; and no request is dispatched as two jobs.
C4_SingleSlotMailbox ==
  /\ \A j \in JobIds : jobs[j].id \notin dropped /\ jobs[j].id = jobs[j].latest
  /\ \A i, j \in JobIds : i < j => jobs[i].id < jobs[j].id
  /\ mailbox.some => mailbox.val.id = nextId - 1

\* Two requests were submitted before the reader took one; the second was
\* dispatched and the first never was.
C4_Witness ==
  /\ 1 \in dropped
  /\ Len(jobs) >= 1
  /\ jobs[1].id = 2

\* The jobs that have emitted an event.
Published == {events[k].job : k \in 1..Len(events)}

\* C6: a job that finds its token flagged at the check after the compile is
\* discarded: that step changes neither the events nor the cached document,
\* and the job never publishes an event or writes the document afterwards.
C6_DiscardedLeavesNoTrace ==
  /\ [](\A j \in JobIds :
          (jobs[j].pc \notin {"start", "lock", "compile", "gate"} /\ jobs[j].gateFlag)
            => /\ jobs[j].end = "aborted"
               /\ j \notin Published
               /\ ~(document.some /\ document.val.by = j))
  /\ [][\A j \in JobIds :
          (jobs[j].pc = "gate" /\ jobs'[j].end = "aborted")
            => (events' = events /\ document' = document)]_vars

\* A job was discarded after its compile succeeded, while the cache holds
\* the document of another job.
C6_Witness ==
  \E j \in JobIds :
    /\ jobs[j].end = "aborted" /\ jobs[j].out = "ok"
    /\ document.some /\ document.val.by # j

-----------------------------------------------------------------------------
(* Claims about the compile command.                                       *)

\* C5 (as claimed): the highest-observed request id counter never
\* decreases, in whatever order the requests reach the backend.
C5_CounterMonotone == [][counter' >= counter]_vars

-----------------------------------------------------------------------------
(* Claims about the page render cache.                                     *)

\* The last two calls were render_page at one index with pages of one
\* fingerprint.
RenderedTwice ==
  /\ call.op = "render_page"
  /\ call.prev.op = "render_page"
  /\ call.prev.page_index = call.page_index
  /\ ComputePageHash(call.prev.page) = ComputePageHash(call.page)

RenderedMiss ==
  /\ call.op = "render_page"
  /\ ~IsHit(call.before, call.page_index, call.page)

\* What a miss leaves behind and returns, the flag aside: the page's own
\* markup carrying the stable id, stored with the fingerprint and the id at
\* the index, every other entry as it was; a render_page of the same page
\* right after it returns that markup from the cache.
MissStoresFresh ==
  LET frame_hash == ComputePageHash(call.page)
      data_tid == GenerateDataTid(frame_hash, call.page_index)
      fresh == <<"<svg", " viewBox", " data-tid=">> \o data_tid
                 \o <<">", call.page, "</svg>">>
  IN  /\ call.svg = fresh
      /\ DOMAIN page_cache = DOMAIN call.before \cup {call.page_index}
      /\ page_cache[call.page_index] =
           [frame_hash |-> frame_hash, svg |-> fresh, data_tid |-> data_tid]
      /\ \A k \in DOMAIN call.before :
           k # call.page_index => page_cache[k] = call.before[k]
      /\ RenderPage(page_cache, call.page_index, call.page) =
           [cache |-> page_cache, svg |-> fresh, flag |-> FALSE]

C12_PruneRemovesTail ==
  [][call'.op = "prune_pages" =>
       /\ DOMAIN page_cache' = {k \in DOMAIN page_cache : k < call'.count}
       /\ \A k \in DOMAIN page_cache' : page_cache'[k] = page_cache[k]
       /\ render_version' = render_version]_vars

\* A prune removed the entry at its bound and kept the one below it, with
\* the version above its initial value.
C12_Witness ==
  /\ call.op = "prune_pages"
  /\ call.count = 1
  /\ DOMAIN call.before = {0, 1}
  /\ DOMAIN page_cache = {0}
  /\ page_cache[0] = call.before[0]
  /\ render_version > 0

\* The entries of a get_changed_pages result that are page indices of the
\* document, and those that are the sentinel.
BelowCount(changed, count) == {k \in 1..Len(changed) : changed[k] < count}
Sentinels(changed, count) == {k \in 1..Len(changed) : changed[k] = count}

\* C13: get_changed_pages reports, among the indices below the document's
\* page count, exactly those without an entry or with another fingerprint,
\* each once, and leaves the cache as it was.
C13_ChangedExactlyOnce ==
  call.op = "get_changed_pages" =>
    LET below == BelowCount(call.changed, call.count)
        stale == {i \in 0..(call.count - 1) :
                    \/ i \notin DOMAIN call.before
                    \/ call.before[i].frame_hash # ComputePageHash(call.doc[i + 1])}
    IN  /\ {call.changed[k] : k \in below} = stale
        /\ Cardinality(below) = Cardinality(stale)
        /\ page_cache = call.before

\* A two-page document met a cache that holds the first page's fingerprint,
\* from another frame, and another fingerprint for the second page.
C13_Witness ==
  /\ call.op = "get_changed_pages"
  /\ call.count = 2
  /\ DOMAIN call.before = {0, 1}
  /\ call.before[0].frame_hash = ComputePageHash(call.doc[1])
  /\ call.before[1].frame_hash # ComputePageHash(call.doc[2])
  /\ call.changed = <<1>>

\* C14 (as claimed): get_changed_pages emits exactly one sentinel, equal to
\* the page count, when the cache holds an entry at or beyond the page
\* count, however many there are, and none when it holds none.
C14_OneSentinel ==
  call.op = "get_changed_pages" =>
    Cardinality(Sentinels(call.changed, call.count)) =
      IF \E k \in DOMAIN call.before : k >= call.count THEN 1 ELSE 0

\* C15 (as claimed): reset empties the page cache and leaves the version
\* strictly greater than it was before the call.
C15_ResetRaisesVersion ==
  [][call'.op = "reset" =>
       /\ page_cache' = EmptyCache
       /\ render_version' > render_version]_vars

\* C16 (as claimed): over any sequence of render cache operations the
\* version never decreases.
C16_VersionMonotone == [][render_version' >= render_version]_vars

-----------------------------------------------------------------------------
(* Claims about panics.                                                    *)

\* C17 (as claimed): after a job panicked while holding a shared lock of
\* the session, no job of a request submitted after the panic panics or is
\* abandoned because the lock is poisoned.
C17_NoJobLostToPoison ==
  \A i, j \in JobIds :
    (jobs[i].end = "panicked" /\ jobs[j].id > jobs[i].at) => jobs[j].end # "poisoned"

-----------------------------------------------------------------------------
(* Claims about the mailbox reader.                                        *)

\* C18: when the reader dispatches a job, the token of every job dispatched
\* before it is already flagged, whether or not that job has ended; so the
\* token of every job but the latest is flagged at all times.
C18_EarlierTokensFlagged ==
  /\ [](\A i, j \in JobIds : i < j => tokens[jobs[i].tok])
  /\ [][Len(jobs') > Len(jobs) => \A i \in JobIds : tokens[jobs[i].tok]]_vars

\* A second job was dispatched while the first was still compiling, with
\* the first job's token flagged.
C18_Witness ==
  /\ Len(jobs) >= 2
  /\ jobs[1].pc = "compile"
  /\ tokens[jobs[1].tok]
  /\ jobs[2].pc = "start"

\* A request has a job, or was sent from a window that no longer exists.
Dispatched(req) ==
  WindowExists(req.window) => \E j \in JobIds : jobs[j].id = req.id

\* C19: a request waiting in the mailbox is eventually taken and dispatched
\* by the reader, unless a newer request replaces it there first, whatever
\* the jobs dispatched earlier are doing and even if they never finish.
C19_ReaderNeverWaits ==
  \A id \in 1..MaxReq :
    (mailbox.some /\ ~mailbox.taken /\ mailbox.val.id = id)
      ~> \/ id \in dropped
         \/ /\ mailbox.some
            /\ mailbox.taken
            /\ mailbox.val.id = id
            /\ Dispatched(mailbox.val)
            /\ rdPc = "wait"

\* The third request was dispatched while the first job holds the world
\* lock inside its compile and the second is blocked on that lock.
C19_Witness ==
  /\ Len(jobs) = 3
  /\ jobs[1].pc = "compile"
  /\ worldLock = 1
  /\ jobs[2].pc = "lock"
  /\ jobs[3].pc = "start"

-----------------------------------------------------------------------------
(* Claims about the document cache.                                        *)

\* The job passed the gate with a successful compile.
Admitted(job) == job.out = "ok" /\ ~job.gateFlag /\ job.pc \in {"store", "emit", "done"}

\* C20: the cached document is replaced only by the store of a job admitted
\* with a successful compile, which is the job that then publishes the
\* success event; every other step, and every job that fails, is abandoned
\* or is discarded, leaves the cached document as it is.
C20_OnlyAdmittedSuccessStores ==
  /\ [][document' # document =>
          \E j \in JobIds :
            /\ jobs[j].pc = "store"
            /\ Admitted(jobs[j])
            /\ jobs'[j].pc = "emit"
            /\ document' = Some([by |-> j, id |-> jobs[j].id, text |-> jobs[j].text])]_vars
  /\ [](document.some =>
          LET j == document.val.by
          IN  /\ Admitted(jobs[j])
              /\ jobs[j].end \in {"running", "published"}
              /\ jobs[j].pc = "done" =>
                   \E k \in 1..Len(events) : events[k].job = j /\ events[k].kind = "ok")

\* A later job ended in a compile failure and one was discarded at the
\* gate, and the cache still holds the document an earlier job stored.
C20_Witness ==
  /\ document.some
  /\ \E j \in JobIds :
       /\ j > document.val.by
       /\ jobs[j].out = "err"
       /\ jobs[j].end = "published"
  /\ \E j \in JobIds : j # document.val.by /\ jobs[j].end = "aborted"

-----------------------------------------------------------------------------
(* The main entry of a job.                                                *)

\* C21: a job for which no main entry can be resolved (the request names
\* none, and the project has no default to apply) is abandoned silently: it
\* never reaches the compiler, publishes no event and leaves the cached
\* document alone.
C21_NoEntryAbandons ==
  ~config.some =>
    /\ \A j \in JobIds : jobs[j].pc \notin {"compile", "gate", "store", "emit",
                                             "errlock", "erremit"}
    /\ events = <<>>
    /\ document = NoneOpt

\* C22: a request names no main entry of its own, so a job that reaches the
\* compiler compiles the project's configured default entry.
C22_DefaultEntryCompiled ==
  \A j \in JobIds :
    (config.some /\ jobs[j].pc = "compile") => main = SetMainPath(config.val)

-----------------------------------------------------------------------------
(* The two admission checks of a job.                                      *)

\* A job is superseded when its token is flagged (compile_job) or when its
\* id is below the highest id a handler has stored in the session's counter
\* (typst_compile).
Superseded(j) ==
  IF jobs[j].tok = 0
  THEN \E k \in JobIds : jobs[k].end # "noproject" /\ jobs[k].id > jobs[j].id
  ELSE tokens[jobs[j].tok]

\* C23: a job that is superseded when it makes the check at the overlay
\* lock returns without applying its override, changing the main entry,
\* compiling or publishing; a job that is superseded when it makes the
\* check after the compile returns without storing or publishing.
C23_SupersededJobStops ==
  [][\A j \in JobIds :
       /\ (jobs[j].pc = "lock" /\ jobs'[j] # jobs[j] /\ Superseded(j)) =>
            /\ jobs'[j].pc = "done"
            /\ slots' = slots /\ main' = main
            /\ events' = events /\ document' = document
       /\ (jobs[j].pc = "gate" /\ jobs'[j] # jobs[j] /\ Superseded(j)) =>
            /\ jobs'[j].pc = "done"
            /\ events' = events /\ document' = document]_vars

-----------------------------------------------------------------------------
(* The diagnostics of a failure event.                                     *)

\* The id of the file the request edited.
EditedId == FileId(NoPkg, VirtualPathNew(ipc.path))

\* The diagnostics a failure event carries.
PublishedDiags == ipc.event.diagnostics.val

\* C24: every diagnostic of a published failure event was raised in the
\* edited file, never in another file or in no file; and the list is empty
\* when the source lookup of the edited file failed.
C24_OnlyEditedFileDiagnostics ==
  ipc.op = "failure" =>
    /\ \A k \in 1..Len(PublishedDiags) : PublishedDiags[k].message = Some(EditedId)
    /\ ipc.source_res.tag = "err" => PublishedDiags = <<>>

\* A failure event with a diagnostic, from a compile that also reported a
\* diagnostic of another file whose span the lookup finds.
C24_Witness ==
  /\ ipc.op = "failure"
  /\ Len(PublishedDiags) = 1
  /\ \E k \in 1..Len(ipc.diagnostics) :
       ipc.diagnostics[k].file = Some(PkgAId) /\ ipc.diagnostics[k].range.some

\* The number of characters of the content that end at or before byte b,
\* counted on the characters.
CharsBefore(content, b) ==
  CHOOSE k \in 0..Len(content) : Len(AsBytes(SubSeq(content, 1, k))) = b

\* The diagnostics of the edited file whose span was found, in order.
Retained ==
  SelectSeq(ipc.diagnostics, LAMBDA d : d.file = Some(EditedId) /\ d.range.some)

\* C25: a published diagnostic whose span resolves to the bytes [b0, b1) of
\* the edited content has the range [c0, c0 + n): c0 characters lie in
\* content[0..b0) and n in content[b0..b1). With a multi-byte character
\* before b1 the published range differs from the byte range.
C25_RangeInCharacters ==
  ipc.op = "failure" /\ ipc.source_res.tag = "ok" =>
    /\ Len(PublishedDiags) = Len(Retained)
    /\ \A k \in 1..Len(Retained) :
         LET b0 == Retained[k].range.val.start
             b1 == Retained[k].range.val.end
             c0 == CharsBefore(ipc.content, b0)
             n  == CharsBefore(ipc.content, b1) - c0
         IN  /\ PublishedDiags[k].range = [start |-> c0, end |-> c0 + n]
             /\ CharsBefore(ipc.content, b1) < b1 =>
                  PublishedDiags[k].range # [start |-> b0, end |-> b1]

\* A published diagnostic whose range starts after a two-byte character.
C25_Witness ==
  /\ ipc.op = "failure"
  /\ ipc.content = <<"E", "b">>
  /\ \E k \in 1..Len(PublishedDiags) :
       /\ Retained[k].range.val = [start |-> 2, end |-> 3]
       /\ PublishedDiags[k].range = [start |-> 1, end |-> 2]

-----------------------------------------------------------------------------
(* The success event and the on-demand render.                             *)

\* C26: a success event carries the pre-rendered bodies of the leading
\* pages, min(pageCount, 10) of them, where pageCount is the event's page
\* count and the number of pages of the document the job stored.
C26_PrerenderedLeadingPages ==
  ipc.op = "success" =>
    LET d == ipc.event.document.val
    IN  /\ d.pages = Len(document.val)
        /\ "prerenderedPages" \in DOMAIN d
        /\ Len(d.prerenderedPages) = IF d.pages < 10 THEN d.pages ELSE 10

\* C27: the on-demand render returns an error when no compiled document is
\* cached or the page index is not below the document's page count; else
\* it returns the markup of that page and the request's nonce. It leaves
\* the cached document as it is.
C27_RenderOrError ==
  [][ipc'.op = "render" =>
       /\ document' = document
       /\ IF ~ipc'.present \/ ~document.some \/ ipc'.page >= Len(document.val)
          THEN ipc'.res.tag = "err"
          ELSE /\ ipc'.res.tag = "ok"
               /\ ipc'.res.val.image = TypstSvg(document.val[ipc'.page + 1])
               /\ ipc'.res.val.nonce = ipc'.nonce]_vars

\* The second page of a cached document was rendered, and an index that
\* equals the page count can be asked for next.
C27_Witness ==
  /\ ipc.op = "render"
  /\ ipc.res.tag = "ok"
  /\ ipc.page = 1
  /\ Len(document.val) = 2

-----------------------------------------------------------------------------
(* Package files.                                                          *)

\* The directory a package-scoped id is to be resolved under.
PackageDir(pkg) ==
  IF DirExists("data", pkg) THEN "data"
  ELSE IF DirExists("cache", pkg) THEN "cache"
  ELSE "none"

\* C28: a read of a package-scoped id uses the package directory under the
\* data directory when it exists, else the one under the cache directory
\* when it exists, else it fails with PackageNotFound; an id whose package
\* is not found never gets a slot, and its read reads no disk.
C28_PackageRootOrNotFound ==
  /\ \A id \in DOMAIN slots :
       id.pkg # NoPkg =>
         /\ PackageDir(id.pkg) # "none"
         /\ slots[id].path = <<PackageDir(id.pkg), id.pkg>> \o id.vpath
  /\ (last.op = "read" /\ last.id.pkg # NoPkg) =>
       IF PackageDir(last.id.pkg) = "none"
       THEN last.res = Err("PackageNotFound") /\ ~last.read
       ELSE last.id \in DOMAIN slots /\ last.res.tag = "ok"

\* A read of a file of the package under neither directory has failed,
\* after files of the two installed packages were read.
C28_Witness ==
  /\ last.op = "read"
  /\ last.id = PkgBId
  /\ last.res = Err("PackageNotFound")
  /\ {PkgAId, PkgCId} \subseteq DOMAIN slots

-----------------------------------------------------------------------------
(* The order of the overrides and of the cached documents.                 *)

\* The job has applied its override to the overlay.
Applied(job) ==
  \/ job.pc \in {"compile", "gate", "store", "emit", "errlock", "erremit"}
  \/ job.pc = "done" /\ job.end \in {"aborted", "published"}

\* C29: once the override of a request is applied to a path, no job of a
\* request with a smaller id applies its override to that path.
C29_OverridesInRequestOrder ==
  [][\A j \in JobIds :
       (jobs[j].pc = "lock" /\ Applied(jobs'[j])) =>
         \A k \in JobIds :
           (Applied(jobs[k]) /\ VirtualPathNew(jobs[k].path) = VirtualPathNew(jobs[j].path))
             => jobs[k].id < jobs[j].id]_vars

\* The jobs that have written the document cache and not yet published.
Writers == {j \in JobIds : jobs[j].pc = "emit"}

\* The success events published so far.
Successes == SelectSeq(events, LAMBDA e : e.kind = "ok")

\* C30: the cached document is the one the latest success event announced.
\* Between a job's cache write and its event the document is that job's and
\* no other job is between its own write and event; no success event of a
\* newer request precedes the write of the cached document.
C30_CacheMatchesLastSuccess ==
  document.some =>
    /\ IF Writers # {}
       THEN Writers = {document.val.by}
       ELSE Successes # <<>> /\ Successes[Len(Successes)].job = document.val.by
    /\ \A k \in 1..Len(Successes) : Successes[k].id <= document.val.id

-----------------------------------------------------------------------------
(* The overlay between a job's compile and its diagnostic mapping.         *)

\* The id of the file a job's request edited.
JobFileId(job) == FileId(NoPkg, VirtualPathNew(job.path))

\* C31: when a job looks up the edited file's source to map the diagnostics
\* of its failed compile, the source it gets is the content of its own
\* request.
C31_MappedSourceIsCompiled ==
  [][\A j \in JobIds :
       (jobs[j].pc = "errlock" /\ jobs'[j].pc = "erremit") =>
         WorldRead(slots, JobFileId(jobs[j]), "source").res = Ok(jobs[j].content)]_vars

-----------------------------------------------------------------------------
(* The world lock during a compile.                                        *)

\* The requests of a session that edits two files of its project.
SessionShapes ==
  {[path |-> <<"main.typ">>, content |-> t, window |-> "main"] : t \in Texts}
    \cup {[path |-> <<"doc.typ">>, content |-> <<"a">>, window |-> "main"]}

\* The compile service of that session.
NextSession ==
  \/ \E shape \in SessionShapes : Submit(shape)
  \/ RdWake
  \/ RdGrab
  \/ \E j \in JobIds, present \in BOOLEAN : JStart(j, present)
  \/ \E j \in JobIds : JLock(j)
  \/ \E j \in JobIds, outcome \in CompileOutcomes : JCompile(j, outcome)
  \/ \E j \in JobIds : JGate(j)
  \/ \E j \in JobIds : JStore(j)
  \/ \E j \in JobIds : JEmit(j)
  \/ \E j \in JobIds : JErrLock(j)
  \/ \E j \in JobIds : JErrEmit(j)

SpecSession == InitService /\ [][NextSession]_vars

\* The jobs between a lock() of project.world and the drop of its guard:
\* from line 106 to line 139, and from line 181 to the end of the Err arm.
LockHolders == {j \in JobIds : jobs[j].pc \in {"compile", "erremit"}}

\* C32: at most one job holds the world lock, and while a job is in its
\* compiler invocation the overlay returns the job's own content for the
\* path it edited, as source and as bytes, and the main entry is that path.
C32_CompileUnderLock ==
  /\ Cardinality(LockHolders) <= 1
  /\ \A j \in LockHolders : worldLock = j
  /\ \A j \in JobIds :
       jobs[j].pc = "compile" =>
         /\ \A kind \in Kinds :
              WorldRead(slots, JobFileId(jobs[j]), kind).res
                = Expected(kind, jobs[j].content)
         /\ main = Some(JobFileId(jobs[j]))

\* A job compiles doc.typ with its own content while an earlier job, which
\* compiled main.typ with another content, waits to map its diagnostics.
C32_Witness ==
  \E j, k \in JobIds :
    /\ jobs[j].pc = "compile" /\ jobs[j].path = <<"doc.typ">>
    /\ worldLock = j
    /\ jobs[k].pc = "errlock" /\ jobs[k].path = <<"main.typ">>
    /\ jobs[k].content # jobs[j].content
    /\ main = Some(JobFileId(jobs[j]))

-----------------------------------------------------------------------------
(* Two sessions: two windows, each with its own project.                   *)

\* The requests of two windows; each edits the main.typ of its own project.
WindowShapes ==
  {[path |-> <<"main.typ">>, content |-> <<"a">>, window |-> "main"],
   [path |-> <<"main.typ">>, content |-> <<"E", "b">>, window |-> "other"]}

\* The jobs of the window whose project's overlay and document cache the
\* model follows.
OwnJobs == {j \in JobIds : jobs[j].window = "main"}

\* One Compiler that receives the requests of both windows. The jobs of
\* the window "other" are spawned and run on their own project.
NextWindows ==
  \/ \E shape \in WindowShapes : Submit(shape)
  \/ RdWake
  \/ RdGrab
  \/ \E j \in OwnJobs, present \in BOOLEAN : JStart(j, present)
  \/ \E j \in OwnJobs : JLock(j)
  \/ \E j \in OwnJobs, outcome \in CompileOutcomes : JCompile(j, outcome)
  \/ \E j \in OwnJobs : JGate(j)
  \/ \E j \in OwnJobs : JStore(j)
  \/ \E j \in OwnJobs : JEmit(j)
  \/ \E j \in OwnJobs : JErrLock(j)
  \/ \E j \in OwnJobs : JErrEmit(j)

SpecWindows == InitService /\ [][NextWindows]_vars

\* C33: a job's token is flagged only for a request of the job's own
\* window.
C33_NoCrossSessionCancel ==
  [][\A j \in JobIds :
       (~tokens[jobs[j].tok] /\ tokens'[jobs[j].tok]) =>
         mailbox.val.window = jobs[j].window]_vars

-----------------------------------------------------------------------------
(* The newest request under fair scheduling.                               *)

\* The next step of job j, whatever it is; the compiler call returns.
JobStep(j) ==
  /\ j \in JobIds
  /\ \/ \E present \in BOOLEAN : JStart(j, present)
     \/ JLock(j)
     \/ \E outcome \in CompileOutcomes : JCompile(j, outcome)
     \/ JGate(j)
     \/ JStore(j)
     \/ JEmit(j)
     \/ JErrLock(j)
     \/ JErrEmit(j)

\* The compile service with a fairly scheduled reader task and jobs whose
\* worker threads keep running: a job that can take its next step does.
SpecFair ==
  /\ InitService /\ [][NextService]_vars
  /\ WF_vars(RdWake) /\ WF_vars(RdGrab)
  /\ \A j \in 1..MaxReq : WF_vars(JobStep(j))

\* The events published for a request.
EventsOf(r) == {k \in 1..Len(events) : events[k].id = r}

\* The request's window exists and its path resolves inside the root.
Servable(req) ==
  /\ WindowExists(req.window)
  /\ ResolveId(FileId(NoPkg, VirtualPathNew(req.path))).tag = "ok"

-----------------------------------------------------------------------------
(* What the window receives.                                               *)

\* The TypstCompileEvent of an event: the Ok arm fills the document and
\* leaves the diagnostics out (service.rs lines 163-171), the Err arm fills
\* the diagnostics, possibly with an empty list, and leaves the document
\* out (lines 229-232).
Payload(e) ==
  IF e.kind = "ok"
  THEN TypstCompileEvent(Some([by |-> e.job, text |-> jobs[e.job].text]), NoneOpt)
  ELSE TypstCompileEvent(NoneOpt, Some(<<>>))

\* emit_event sends every event to the window twice: its payload under the
\* name typst_compile and the tagged event under the name backend_event.
Channels == {"typst_compile", "backend_event"}

\* What the window has received under a name, in order, with its job.
Emitted(name) ==
  [k \in 1..Len(events) |->
     [job |-> events[k].job,
      payload |-> IF name = "typst_compile" THEN Payload(events[k])
                  ELSE [event |-> "typst_compile", payload |-> Payload(events[k])]]]

\* The TypstCompileEvent inside what was received under a name.
CompileEventIn(name, msg) ==
  IF name = "typst_compile" THEN msg.payload ELSE msg.payload.payload

\* C35: under each event name the window receives at most one compile
\* event of a job, and every compile event carries either a document and
\* no diagnostics or diagnostics and no document.
C35_OneWellFormedEvent ==
  \A name \in Channels :
    LET got == Emitted(name) IN
      /\ \A j \in JobIds : Cardinality({k \in DOMAIN got : got[k].job = j}) <= 1
      /\ \A k \in DOMAIN got :
           LET ev == CompileEventIn(name, got[k])
           IN  ev.document.some # ev.diagnostics.some

\* One job has published a success event and another a failure event.
C35_Witness ==
  \E a, b \in DOMAIN events :
    /\ events[a].kind = "ok" /\ events[b].kind = "err"
    /\ Payload(events[a]).document.some /\ ~Payload(events[a]).diagnostics.some
    /\ Payload(events[b]).diagnostics.some /\ ~Payload(events[b]).document.some
    /\ jobs[events[a].job].end = "published" /\ jobs[events[b].job].end = "published"

-----------------------------------------------------------------------------
(* The main entry at the compiler call.                                    *)

\* C36: whenever a job is at its compiler call, the overlay's main entry is
\* set, so World::main has an entry to return.
C36_CompileHasMain ==
  \A j \in JobIds : jobs[j].pc = "compile" => IsMainSet(main)

\* The first job of a project with no configured default is at its
\* compiler call, with the path it edited as the main entry.
C36_Witness ==
  /\ config = NoneOpt
  /\ Len(jobs) = 1
  /\ jobs[1].pc = "compile"
  /\ main = SetMainPath(jobs[1].path)

-----------------------------------------------------------------------------
(* The slots over a session.                                               *)

\* The main entries a session declares: none, a project file, a package
\* file.
MainChoices == {NoneOpt, Some(MainId), Some(PkgAId)}

\* ProjectWorld::set_main(id), which takes the world exclusively: no
\* source / file call is under way.
SetMain(id) ==
  /\ \A p \in Callers : readers[p].pc = "idle"
  /\ main # id
  /\ main' = id
  /\ last' = NoOp
  /\ UNCHANGED <<slots, disk, readers, overridden, diskReads, tokenFlag>>
  /\ UNCHANGED <<orchVars, renderVars, hostVars>>

\* Every operation of the overlay, one caller at a time.
NextOverlay ==
  \/ \E path \in EditPaths, text \in Texts : Update(path, text)
  \/ \E id \in Ids, kind \in Kinds : ReadBegin("c2", id, kind)
  \/ ReadFill("c2")
  \/ ReadInsert("c2")
  \/ \E f \in DiskStates : DiskWrite(f)
  \/ \E id \in MainChoices : SetMain(id)

SpecOverlay == Init /\ [][NextOverlay]_vars

\* C37: no step removes a slot, and a step changes the slot of one id at
\* most: the id its update or read was for.
C37_SlotsOnlyGrow ==
  [][/\ DOMAIN slots \subseteq DOMAIN slots'
     /\ \A id \in DOMAIN slots :
          slots'[id] # slots[id] =>
            last'.op \in {"update", "read"} /\ last'.id = id]_vars

\* An update has replaced main.typ's content while the slot of a package
\* file holds what was read from it, and a main entry is declared.
C37_Witness ==
  /\ last.op = "update" /\ last.ok /\ last.id = MainId /\ last.prior = "override"
  /\ PkgAId \in DOMAIN slots
  /\ slots[PkgAId].source.tag = "ok" /\ slots[PkgAId].buffer.tag = "ok"
  /\ main = Some(MainId)

-----------------------------------------------------------------------------
(* Ids that leave the project root.                                        *)

\* A project file's id whose normalised path still climbs out of the root.
Escapes(id) == id.pkg = NoPkg /\ \E i \in 1..Len(id.vpath) : id.vpath[i] = ".."

\* C38: an update or a source / file read for an id that leaves the root
\* fails with AccessDenied, reads no disk and leaves the slot map as it
\* was, without a slot for the id.
C38_EscapeDenied ==
  [][(last'.op \in {"update", "read"} /\ Escapes(last'.id)) =>
       /\ slots' = slots
       /\ diskReads' = diskReads
       /\ last'.id \notin DOMAIN slots'
       /\ IF last'.op = "read"
          THEN last'.res = Err("AccessDenied") /\ ~last'.read
          ELSE /\ ~last'.ok
               /\ \A path \in EditPaths :
                    FileId(NoPkg, VirtualPathNew(path)) = last'.id =>
                      SlotUpdate(slots, path, Some(last'.text)).res = Err("AccessDenied")]_vars

\* A read of the escaping id was denied while the overlay holds main.typ's
\* override; the escaping id has neither a slot nor an override.
C38_Witness ==
  /\ last.op = "read" /\ last.id = EscId /\ last.res = Err("AccessDenied")
  /\ MainId \in DOMAIN slots /\ overridden[MainId].some
  /\ ~overridden[EscId].some
  /\ EscId \notin DOMAIN slots

-----------------------------------------------------------------------------
(* Stable identifiers and fingerprints.                                    *)

\* The frames rendered: two whose hashes differ in both halves, and one
\* whose hash differs from the first one's in the high half only.
TidPages == {"fa", "fb", "fd"}

\* render_page called again and again on changing pages.
NextTid == \E page_index \in PageIdx, page \in TidPages : CallRenderPage(page_index, page)

SpecTid == InitService /\ [][NextTid]_vars

\* C39: every stored identifier is the one generated from the entry's
\* fingerprint and index, and a render_page whose page has another
\* fingerprint than the entry it replaces stores another identifier.
C39_NewFingerprintNewTid ==
  /\ \A i \in DOMAIN page_cache :
       page_cache[i].data_tid = GenerateDataTid(page_cache[i].frame_hash, i)
  /\ (/\ call.op = "render_page"
      /\ call.page_index \in DOMAIN call.before
      /\ call.before[call.page_index].frame_hash # ComputePageHash(call.page))
     => page_cache[call.page_index].data_tid # call.before[call.page_index].data_tid

-----------------------------------------------------------------------------
(* The guard while its token is unflagged.                                 *)

\* World::main of the overlay: the main entry, a panic when none is set.
WorldMain(m) == IF m.some THEN Ok(m.val) ELSE Err("panic")

\* CancellableWorld::main: the wrapped world's.
GuardMain(m) == WorldMain(m)

\* C40: a source or file call that returns through the guard while the
\* token is unflagged returns what the call on the overlay itself returns
\* from the same slots and leaves the slots as that call leaves them; the
\* guard's main is the overlay's.
C40_GuardTransparent ==
  [][(last'.op = "read" /\ last'.via = "guard" /\ ~tokenFlag') =>
       LET direct == WorldRead(slots, last'.id, last'.kind)
       IN  /\ last'.res = direct.res
           /\ slots' = direct.slots
           /\ \A m \in MainChoices : GuardMain(m) = WorldMain(m)]_vars

\* A call through the guard, the token unflagged, has read main.typ from
\* the disk and returned its content.
C40_Witness ==
  /\ last.op = "read" /\ last.via = "guard" /\ ~tokenFlag
  /\ last.id = MainId /\ last.read /\ last.res.tag = "ok"
  /\ Cell(slots[MainId], last.kind) = last.res

====
